---- MODULE Spec2Model ----
(***************************************************************************)
(* A model of stream-loader.py: one source-consumer worker thread          *)
(* (Azure Service Bus, Kafka, RabbitMQ or SQS, plain or withinfo) reading  *)
(* deliveries, expanding each into records and sending every record        *)
(* through WriteG2Thread.send_jsonline_to_g2_engine; or, for the url and   *)
(* stdin subcommands, a reader thread filling a queue of lines and a       *)
(* writer thread sending each line through the same method.                *)
(*                                                                         *)
(* The broker, the resolver (G2Engine), the configuration manager and the  *)
(* failure / info sinks are the environment: each call to them has its     *)
(* outcome chosen with \E.  The variables acks, raw, cur,                  *)
(* sink_write_failed and resolver_accepts keep, for the delivery being     *)
(* processed, what was done to it and to its current record; they are      *)
(* reset when the next delivery is fetched.  The variables info and        *)
(* operation keep what the dispatch in progress did with the resolver;     *)
(* they are reset when the consumer has looked at the dispatch's result.   *)
(***************************************************************************)
EXTENDS Integers, Sequences, FiniteSets, TLC

\* ---------------------------------------------------------------------------
\* Bounds of the model.
\* ---------------------------------------------------------------------------

\* Number of deliveries the worker fetches.
MaxMessages == 1

\* Largest number of elements of a JSON array body.
MaxRecords == 2

\* Number of lines of the input of the stdin / file reader.
MaxLines == 1

\* Value of the option configuration_check_frequency_in_seconds.
configuration_check_frequency_in_seconds == 0

\* Value of the option rabbitmq_reconnect_number_of_retries.
rabbitmq_reconnect_number_of_retries == 2

\* ---------------------------------------------------------------------------
\* Value sets.
\* ---------------------------------------------------------------------------

\* The consumer thread classes that read a broker, by subcommand.
Consumers ==
    {"azure", "azure_withinfo", "kafka", "kafka_withinfo",
     "rabbitmq", "rabbitmq_withinfo", "sqs", "sqs_withinfo"}

WithInfoConsumers ==
    {"azure_withinfo", "kafka_withinfo", "rabbitmq_withinfo", "sqs_withinfo"}

\* Consumers whose run() acknowledges once after the loop over the records
\* (consumer.commit() / setup_ack()).
\* The url subcommand and the stdin subcommand: a ReadUrlWriteQueueThread reads
\* lines (from a file, or from standard input) into a queue and a
\* ReadQueueWriteG2Thread sends them to the engine.
QueueConsumers == {"file", "stdin"}

AckAfterLoopConsumers == {"kafka", "kafka_withinfo", "rabbitmq", "rabbitmq_withinfo"}

\* Consumers whose run() acknowledges inside the loop over the records
\* (delete_message() / complete_message()), where an exception of the broker
\* call is not caught.
AckInLoopConsumers == {"azure", "azure_withinfo", "sqs", "sqs_withinfo"}

\* The process_<action> methods of WriteG2Thread.
KnownActions ==
    {"addRecord", "addRecordWithInfo", "deleteRecord", "deleteRecordWithInfo",
     "reevaluateRecord", "reevaluateRecordWithInfo"}

WithInfoActions ==
    {"addRecordWithInfo", "deleteRecordWithInfo", "reevaluateRecordWithInfo"}

\* What a record holds under the directive key: nothing, an object without
\* "action", an object naming an action (known, or "unknown"), or a value
\* that is not an object.
Directives == {"absent", "no_action", "unknown", "not_object"} \cup KnownActions

\* What a message body is: not JSON at all, or the JSON value it decodes to.
BodyKinds ==
    {"undecodable", "object", "array", "number", "boolean", "null",
     "string", "empty_string"}

\* JSON values that python cannot iterate over: "for x in 5" raises TypeError.
NotIterableKinds == {"number", "boolean", "null"}

\* The resolver's configuration identifiers.
ConfigIds == {1, 2}

\* The key under which a record carries its directive (the default of the
\* option stream_loader_directive_name).
stream_loader_directive_name == "senzingStreamLoader"

\* A dictionary without keys.
EmptyDict == [k \in {} |-> ""]

\* Python's None: the default of the options data_source and entity_type, and
\* JSON's null once it is dumped.
None == "None"

\* The class behind the name InfoFilter when the threads are constructed: the
\* one of this program, or the one import_plugins took from the module
\* senzing_info_filter.
InfoFilters == {"InfoFilter", "senzing_info_filter"}

\* ---------------------------------------------------------------------------
\* State.
\* ---------------------------------------------------------------------------

VARIABLES
    consumer,                       \* which consumer class the thread is
    failure_queue_configured,       \* failure_queue_enabled / sqs_failure_queue_url
    sqs_dead_letter_queue_enabled,  \* the SQS queue has a RedrivePolicy
    info_filter,                    \* the class self.info_filter is made from
    pc,                             \* position of the worker thread
    message,                        \* the delivery being processed
    fetched,                        \* number of deliveries fetched so far
    index,                          \* position in the message list (1-based)
    action,                         \* stream_loader_action of the current record
    info,                           \* what the dispatch did with the resolver's info
    jsonline,                       \* json.loads(jsonline) of the dispatch in progress
    json_dictionary,                \* the same after the pop of the directive
    operation,                      \* the last call of a resolver operation
    result,                         \* value send_jsonline_to_g2_engine returned
    counter_queued_records,
    counter_processed_records,
    active_config_id,               \* g2_engine.getActiveConfigID()
    default_config_id,              \* g2_configuration_manager.getDefaultConfigID()
    seconds_since_check,            \* time.time() - config['last_configuration_check']
    acks,                           \* acknowledgements issued for the delivery
    sink_write_failed,              \* add_to_failure_queue returned False in the delivery
    raw,                            \* what happened to an undecodable body
    cur,                            \* what happened to the current record
    resolver_accepts,               \* resolver operations that returned, for the delivery
    at_fetch,                       \* the two counters when the delivery was fetched
    fetch_outcome,                  \* what the last poll / receive returned
    slept,                          \* what delay() did since the last receive
    governed,                       \* govern() was called since the last dispatch began
    exit_on_empty_queue,            \* the option exit_on_empty_queue (SQS)
    reader_parses,                  \* data_source or entity_type is configured
    reader_pc,                      \* position of the ReadUrlWriteQueueThread
    lines_read,                     \* lines the reader has read from its input
    work_queue,                     \* the queue between reader and writer
    data_source,                    \* the option data_source
    entity_type,                    \* the option entity_type
    line_dictionary,                \* a record as the source delivered it
    normalized,                     \* the record as it is handed to the dispatch
    normalized_twice,               \* the same after a second normalization
    normalize_pc,                   \* position of the normalization
    main_pc,                        \* position of the main thread
    workers,                        \* state of each worker thread
    monitor_pc,                     \* position of the MonitorThread
    g2_engine,                      \* state of the G2Engine the threads share
    exit_code,                      \* exit code of the process, once it has ended
    config,                         \* keys of the configuration that hold a value
    debug,                          \* the option debug
    args,                           \* options given on the command line
    log,                            \* messages logged, with the keys whose values they show
    signalled,                      \* SIGTERM or SIGINT was handled
    fatal_reported,                 \* exit_error was called by some thread
    processed_after_fatal,          \* a worker processed a record after that
    after_destroy,                  \* uses of the engine after g2_engine.destroy()
    thread_config,                  \* the config dictionary all threads share
    thread_pc,                      \* position of each worker thread in its loop
    thread_register,                \* the value a thread has loaded and not yet stored
    thread_records,                 \* records taken from the topic
    clock,                          \* time.time()
    engine_config,                  \* active and default configuration id
    monitor_stats,                  \* the totals the monitor read in its last pass
    consume_pc,                     \* position of the RabbitMQ consumer thread
    channel,                        \* self.connection / self.channel of that thread
    delivered,                      \* deliveries the broker has made to the callback
    record_queue,                   \* the queue between the callback and the worker
    worker_holds,                   \* the delivery the worker() thread works on
    ack_callbacks,                  \* callbacks setup_ack has handed to a connection
    basic_acks                      \* the basic_ack calls made

vars ==
    <<consumer, failure_queue_configured, sqs_dead_letter_queue_enabled, pc,
      message, fetched, index, action, result, counter_queued_records,
      counter_processed_records, active_config_id, default_config_id,
      seconds_since_check, acks, sink_write_failed, raw, cur,
      resolver_accepts, at_fetch, fetch_outcome, slept, governed, exit_on_empty_queue,
      reader_parses, reader_pc, lines_read, work_queue, info_filter, info,
      jsonline, json_dictionary, operation, data_source, entity_type,
      line_dictionary, normalized, normalized_twice, normalize_pc, main_pc,
      workers, monitor_pc, g2_engine, exit_code, config, debug, args, log,
      signalled, fatal_reported, processed_after_fatal, after_destroy,
      thread_config, thread_pc, thread_register, thread_records, clock,
      engine_config, monitor_stats, consume_pc, channel, delivered,
      record_queue, worker_holds, ack_callbacks, basic_acks>>

dispatch_vars == <<jsonline, json_dictionary, operation>>

option_vars ==
    <<consumer, failure_queue_configured, sqs_dead_letter_queue_enabled,
      exit_on_empty_queue, reader_parses, info_filter>>

process_vars ==
    <<main_pc, workers, monitor_pc, g2_engine, exit_code, config, debug, args,
      log, signalled, fatal_reported, processed_after_fatal, after_destroy>>

normalize_vars ==
    <<data_source, entity_type, line_dictionary, normalized, normalized_twice,
      normalize_pc>>

\* What no step of the worker's loop changes: the options and the parts of
\* the program that are followed on their own.
thread_vars ==
    <<thread_config, thread_pc, thread_register, thread_records, clock,
      engine_config, monitor_stats>>

\* The parts of the program that are followed in specifications of their own.
rabbitmq_vars ==
    <<consume_pc, channel, delivered, record_queue, worker_holds,
      ack_callbacks, basic_acks>>

aside_vars == <<thread_vars, rabbitmq_vars>>

config_vars == <<option_vars, normalize_vars, process_vars, aside_vars>>

reader_vars == <<reader_pc, lines_read, work_queue>>

call_vars == <<resolver_accepts, at_fetch, fetch_outcome, slept, governed>>

engine_vars == <<active_config_id, default_config_id>>

counter_vars == <<counter_queued_records, counter_processed_records>>

\* The record of what happened to a record, before anything happened.
\* calls: resolver operations invoked for it; raised: how many of them raised;
\* accepted: one of them returned without exception; unknown_action: its
\* directive names an action without a process_<action> method; drift: the
\* except clause's re-check found the configuration changed; reinit: the
\* except clause reinitialized the engine;
\* sink_attempts: calls of add_to_failure_queue for it; sink: where such a
\* call put it; sink_result: what the call returned; returned: what
\* send_jsonline_to_g2_engine returned.
NoDispatch ==
    [calls |-> 0, raised |-> 0, accepted |-> FALSE, unknown_action |-> FALSE,
     drift |-> FALSE, reinit |-> FALSE, sink_attempts |-> 0,
     sink |-> "none", sink_result |-> "none", returned |-> "none",
     not_initialized |-> FALSE]

\* The record of what the dispatch in progress did with the resolver's info,
\* before it did anything.  response_json: what the *WithInfo operation
\* returned; filtered_response_json: what filter_info_message made of it;
\* calls: calls of add_to_info_queue; sent: what the call was given;
\* published: the call put it into the info sink.
NoInfo ==
    [response_json |-> "none", filtered_response_json |-> "none", calls |-> 0,
     sent |-> "none", published |-> FALSE]

\* The call of a resolver operation, before there was one.  method: the
\* operation; data_source, record_id: its first two arguments; with_jsonline:
\* whether it was given a record; jsonline: that record.
NoOperation ==
    [method |-> "none", data_source |-> "none", record_id |-> "none",
     with_jsonline |-> FALSE, jsonline |-> EmptyDict]

\* The record of what happened to the raw body, before anything happened.
NoRaw == [sink_attempts |-> 0, sink |-> "none", sink_result |-> "none"]

\* ---------------------------------------------------------------------------
\* The sinks.
\* ---------------------------------------------------------------------------

\* What one basic_publish attempt of the RabbitMQ retry loop can do: succeed,
\* raise StreamLostError (with the reconnect that follows succeeding or ending
\* in exit_error), or raise another exception.
PublishAttempts == {"ok", "stream_lost", "stream_lost_reconnect_fails", "error"}

\* The retry loop shared by add_to_failure_queue and add_to_info_queue of
\* ReadRabbitMQWriteG2WithInfoThread: attempts[i] is what the i-th
\* basic_publish does.  published: a publish succeeded; exits: exit_error
\* was called (sys.exit(1) in the calling thread).
RECURSIVE RabbitMQPublishLoop(_, _, _)
RabbitMQPublishLoop(retries_remaining, attempts, i) ==
    IF retries_remaining > 0
    THEN CASE attempts[i] = "ok" ->
                [published |-> TRUE, exits |-> FALSE]
           [] attempts[i] \in {"stream_lost", "stream_lost_reconnect_fails"} ->
                IF retries_remaining = 0
                THEN [published |-> FALSE, exits |-> TRUE]
                ELSE IF attempts[i] = "stream_lost_reconnect_fails"
                     THEN [published |-> FALSE, exits |-> TRUE]
                     ELSE RabbitMQPublishLoop(retries_remaining - 1, attempts, i + 1)
           [] OTHER ->
                [published |-> FALSE, exits |-> TRUE]
    ELSE [published |-> FALSE, exits |-> FALSE]

RabbitMQPublish ==
    { RabbitMQPublishLoop(rabbitmq_reconnect_number_of_retries, attempts, 1) :
        attempts \in [1..rabbitmq_reconnect_number_of_retries -> PublishAttempts] }

\* add_to_failure_queue of consumer class c: the set of things one call can
\* do.  sink: where the line went ("queue": the failure queue or topic,
\* "log": the log line of the default behaviour, "none": nowhere);
\* returns: the value returned; exits: the call ended in exit_error.
AddToFailureQueue(c, fq, dlq) ==
    CASE c \in {"kafka", "rabbitmq"} \cup QueueConsumers ->
            {[sink |-> "log", returns |-> TRUE, exits |-> FALSE]}
      [] c \in {"azure", "azure_withinfo"} ->
            IF fq
            THEN {[sink |-> "queue", returns |-> TRUE, exits |-> FALSE],
                  [sink |-> "none", returns |-> FALSE, exits |-> FALSE]}
            ELSE {[sink |-> "log", returns |-> TRUE, exits |-> FALSE]}
      [] c = "kafka_withinfo" ->
            {[sink |-> "queue", returns |-> TRUE, exits |-> FALSE],
             [sink |-> "none", returns |-> FALSE, exits |-> FALSE]}
      [] c = "rabbitmq_withinfo" ->
            { [sink |-> IF p.published THEN "queue" ELSE "none",
               returns |-> TRUE, exits |-> p.exits] : p \in RabbitMQPublish }
      [] c \in {"sqs", "sqs_withinfo"} ->
            IF fq
            THEN {[sink |-> "queue", returns |-> TRUE, exits |-> FALSE],
                  [sink |-> "none", returns |-> FALSE, exits |-> FALSE]}
            ELSE IF dlq
                 THEN {[sink |-> "none", returns |-> FALSE, exits |-> FALSE]}
                 ELSE {[sink |-> "log", returns |-> TRUE, exits |-> FALSE]}

\* add_to_info_queue of consumer class c: published (to the info queue, or to
\* the log by the default behaviour) or not, and whether it ended in
\* exit_error.
AddToInfoQueue(c) ==
    CASE c \in {"azure", "kafka", "rabbitmq", "sqs"} \cup QueueConsumers ->
            {[published |-> TRUE, exits |-> FALSE]}
      [] c = "rabbitmq_withinfo" -> RabbitMQPublish
      [] OTHER ->
            {[published |-> TRUE, exits |-> FALSE],
             [published |-> FALSE, exits |-> FALSE]}

\* ---------------------------------------------------------------------------
\* The dispatcher's decisions.
\* ---------------------------------------------------------------------------

\* A default of addRecord in every consumer.
DefaultActionOfPlainConsumer(c) == "addRecord"

\* The action used when the record has no directive, or one without "action".
DefaultAction(c) ==
    IF c \in WithInfoConsumers THEN "addRecordWithInfo" ELSE "addRecord"

\* stream_loader_action of a record holding directive d.
StreamLoaderAction(d, c) ==
    IF d \in {"absent", "no_action"} THEN DefaultAction(c) ELSE d

\* A lookup that finds a method for every action name.
MethodExistsForAnyName(a) == TRUE

\* "process_<action>" in dir(self).
MethodExists(a) == a \in KnownActions

\* is_time_to_check_g2_configuration: now > last_configuration_check +
\* configuration_check_frequency_in_seconds, with elapsed standing for
\* now - last_configuration_check.
IsTimeToCheckG2Configuration(elapsed) ==
    elapsed > configuration_check_frequency_in_seconds

\* The result of is_g2_default_configuration_changed: the ids differ, and
\* False when getDefaultConfigID raised.
IsG2DefaultConfigurationChanged(active, default, config_manager_ok) ==
    IF config_manager_ok THEN active # default ELSE FALSE

\* An except clause that retries whatever the re-check found.
RetryWhateverTheRecheckFound(changed) == "retry"

\* What the except clause of send_jsonline_to_g2_engine does after the first
\* call of the method raised, given the drift re-check's result.
OnResolverException(changed) ==
    IF changed THEN "retry" ELSE "add_to_failure_queue"

\* A consumer that acknowledges an undecodable body whatever the sink returned.
AckWhateverTheSinkReturned(sink_result) == TRUE

\* Whether the consumer acknowledges a delivery whose body is not JSON, given
\* what add_to_failure_queue returned.
AckAfterDecodeFailure(sink_result) == sink_result

\* What consumer.poll (Kafka) and sqs.receive_message (SQS) can hand back; the
\* other consumers block until a delivery is there.
FetchOutcomes(c) ==
    CASE c \in {"kafka", "kafka_withinfo"} ->
            {"poll_none", "partition_eof", "kafka_error", "empty_value", "message"}
      [] c \in {"sqs", "sqs_withinfo"} ->
            {"no_response", "no_messages", "message"}
      [] OTHER -> {"message"}

\* A Kafka consumer without the test for an empty message value.
FetchedNothingButEmptyValue(outcome) ==
    outcome \in {"poll_none", "partition_eof", "kafka_error", "no_response",
                 "no_messages"}

\* Whether the loop goes back to its head without looking at a body: the
\* poll returned None, an error (the partition's end among them) or an empty
\* value; the receive returned None or no Messages.
FetchedNothing(outcome) ==
    outcome \in {"poll_none", "partition_eof", "kafka_error", "empty_value",
                 "no_response", "no_messages"}

\* An SQS consumer that calls delay() on every empty receive.
DelayWhateverTheOption(c, outcome, exit) ==
    IF outcome = "no_messages" THEN "delay" ELSE "fetch"

\* Where the worker goes after a fetch that brought nothing: the SQS consumers
\* leave the loop on an empty receive if exit_on_empty_queue is set and call
\* delay() otherwise; everything else is a plain "continue".
AfterEmptyFetch(c, outcome, exit) ==
    IF outcome = "no_messages"
    THEN IF exit THEN "stopped" ELSE "delay"
    ELSE "fetch"

\* The largest value of the option delay_in_seconds that is followed.
MaxDelay == 2

\* random.random() returns one of 0, 1/RandomSteps, ..., below 1; sleeps are
\* counted in units of 1/RandomSteps seconds.
RandomSteps == 2

\* delay() before it was called.
NoSleep ==
    [called |-> FALSE, delay_in_seconds |-> 0, delay_randomized |-> FALSE,
     seconds |-> 0]

\* A delay that sleeps the whole of delay_in_seconds whatever delay_randomized
\* says.
SleepOfFixedDelay(d, randomized, r) == IF d > 0 THEN RandomSteps * d ELSE 0

\* What delay() sleeps, in units of 1/RandomSteps seconds: nothing unless
\* delay_in_seconds > 0, then random.random() * delay_in_seconds if
\* delay_randomized and delay_in_seconds otherwise.
SleepOfDelay(d, randomized, r) ==
    IF d > 0
    THEN IF randomized THEN r * d ELSE RandomSteps * d
    ELSE 0

\* A record holding directive d, as json.loads returns it.
Record(d) ==
    [k \in {"DATA_SOURCE", "RECORD_ID"}
            \cup (IF d = "absent" THEN {} ELSE {stream_loader_directive_name}) |->
        CASE k = "DATA_SOURCE" -> "A"
          [] k = "RECORD_ID" -> "1"
          [] OTHER -> d]

\* What a record holds under the directive key.
DirectiveOf(dict) ==
    IF stream_loader_directive_name \in DOMAIN dict
    THEN dict[stream_loader_directive_name]
    ELSE "absent"

\* A lookup that leaves the directive in the dictionary.
Get(dict, key) == dict

\* The dictionary after dict.pop(key, default).
Pop(dict, key) == [k \in DOMAIN dict \ {key} |-> dict[k]]

\* extract_primary_key of a dictionary: DATA_SOURCE (or the option
\* data_source, None by default) and RECORD_ID, as strings.
ExtractPrimaryKey(dict) ==
    <<IF "DATA_SOURCE" \in DOMAIN dict THEN dict["DATA_SOURCE"] ELSE "None",
      IF "RECORD_ID" \in DOMAIN dict THEN dict["RECORD_ID"] ELSE "None">>

\* The call of the resolver that process_<a> makes for message_dict: the
\* operation of the same name, given the primary key and, if it adds, the
\* serialized record.
EngineCall(a, message_dict) ==
    LET key == ExtractPrimaryKey(message_dict)
        adds == a \in {"addRecord", "addRecordWithInfo"}
    IN  [method |-> a, data_source |-> key[1], record_id |-> key[2],
         with_jsonline |-> adds,
         jsonline |-> IF adds THEN message_dict ELSE EmptyDict]

\* What response_bytearray.decode() can be after the resolver operation a
\* returned: the operations without info have no response.
Responses(a) == IF a \in WithInfoActions THEN {"", "info"} ELSE {"none"}

\* A filter that replaces every message.
RewritingFilter(blob) == "rewritten"

\* InfoFilter.filter of this program: the message itself.
InfoFilterFilter(blob) == blob

\* What self.info_filter.filter(message=blob) can return: the program's own
\* class returns the message, a user's class another one, or nothing.
FilterInfoMessage(filter, blob) ==
    IF filter = "InfoFilter"
    THEN {InfoFilterFilter(blob)}
    ELSE {"rewritten", ""}

\* A consumer that counts a body as queued before it decodes it.
CountedBeforeDecoding(c) == 1

\* What a broker consumer adds to counter_queued_records for a body that
\* json.loads rejected: the except branch counts nothing.
QueuedOnDecodeFailure(c) == 0

\* A loop that skips an element.
SkipElement(i) == i + 2

\* The position of the element the for statement takes next.
NextIndex(i) == i + 1

\* Whether the consumer counts the record as processed (and, for SQS and
\* Azure, acknowledges), given what send_jsonline_to_g2_engine returned.
RecordProcessed(send_result) == send_result

\* ---------------------------------------------------------------------------
\* Initial state: a constructed consumer thread about to fetch.  The redrive
\* policy is looked at only when no failure queue is configured, so it is
\* varied there; the options exit_on_empty_queue and a user's info filter
\* are each varied with the failure-sink options unset, on which they do not
\* depend.
\* ---------------------------------------------------------------------------

InitWorker ==
    /\ consumer \in Consumers \cup QueueConsumers
    /\ failure_queue_configured \in BOOLEAN
    /\ sqs_dead_letter_queue_enabled \in BOOLEAN
    /\ consumer \notin {"azure", "azure_withinfo", "sqs", "sqs_withinfo"}
            => ~failure_queue_configured
    /\ consumer \notin {"sqs", "sqs_withinfo"} => ~sqs_dead_letter_queue_enabled
    /\ failure_queue_configured => ~sqs_dead_letter_queue_enabled
    /\ pc = "fetch"
    /\ message = [kind |-> "none", len |-> 0]
    /\ fetched = 0
    /\ index = 0
    /\ action = "none"
    /\ info = NoInfo
    /\ jsonline = EmptyDict
    /\ json_dictionary = EmptyDict
    /\ operation = NoOperation
    /\ result = FALSE
    /\ counter_queued_records = 0
    /\ counter_processed_records = 0
    /\ active_config_id = 1
    /\ default_config_id = 1
    /\ seconds_since_check = 0
    /\ acks = 0
    /\ sink_write_failed = FALSE
    /\ raw = NoRaw
    /\ cur = NoDispatch
    /\ resolver_accepts = 0
    /\ at_fetch = [queued |-> 0, processed |-> 0]
    /\ fetch_outcome = "none"
    /\ slept = NoSleep
    /\ governed = FALSE
    /\ exit_on_empty_queue \in BOOLEAN
    /\ consumer \notin {"sqs", "sqs_withinfo"} => ~exit_on_empty_queue
    /\ exit_on_empty_queue
            => ~failure_queue_configured /\ ~sqs_dead_letter_queue_enabled
    /\ reader_parses \in BOOLEAN
    /\ consumer \notin QueueConsumers => ~reader_parses
    /\ info_filter \in InfoFilters
    /\ info_filter # "InfoFilter"
            => /\ consumer \in WithInfoConsumers
               /\ ~failure_queue_configured /\ ~sqs_dead_letter_queue_enabled
               /\ ~exit_on_empty_queue
    /\ reader_pc = IF consumer \in QueueConsumers THEN "reading" ELSE "none"
    /\ lines_read = 0
    /\ work_queue = <<>>

\* The normalization before it has seen a record.  reader_parses says that the
\* reader was given a data_source or an entity_type.
InitNormalizeIdle ==
    /\ data_source = IF reader_parses THEN "D" ELSE None
    /\ entity_type = None
    /\ line_dictionary = EmptyDict
    /\ normalized = EmptyDict
    /\ normalized_twice = EmptyDict
    /\ normalize_pc = "idle"

\* The number of worker threads (the option threads_per_process).
NumWorkers == 2

Workers == 1..NumWorkers

\* The process seen from one worker's loop: the threads are running.
InitProcessIdle ==
    /\ main_pc = "join_threads"
    /\ workers = [w \in Workers |-> "running"]
    /\ monitor_pc = "sleep"
    /\ g2_engine = "initialized"
    /\ exit_code = "none"
    /\ config = {"subcommand", "debug", "g2_database_url_generic"}
    /\ debug = FALSE
    /\ args = {"subcommand"}
    /\ log = {}
    /\ signalled = FALSE
    /\ fatal_reported = FALSE
    /\ processed_after_fatal = FALSE
    /\ after_destroy = {}

\* The configuration the threads are given: get_configuration's result with
\* the counters at zero, and last_configuration_check as get_g2_engine set it.
StartupConfig ==
    [counter_processed_records |-> 0,
     counter_queued_records |-> 0,
     last_configuration_check |-> 0,
     configuration_check_frequency_in_seconds
         |-> configuration_check_frequency_in_seconds,
     threads_per_process |-> NumWorkers]

\* The monitor's locals before its first pass.
NoStats == [last_processed_records |-> 0, last_queued_records |-> 0]

\* The threads seen from one worker's loop: the others are left out.
InitThreadsIdle ==
    /\ thread_config = StartupConfig
    /\ thread_pc = [w \in Workers |-> "finished"]
    /\ thread_register = [w \in Workers |-> 0]
    /\ thread_records = 0
    /\ clock = 0
    /\ engine_config = [active |-> 1, default |-> 1]
    /\ monitor_stats = NoStats

\* What worker() holds between two record_queue.get() calls.
NoDelivery == [delivery_tag |-> 0, channel |-> 0]

\* The RabbitMQ connection seen from one worker's loop: it stays up.
InitRabbitMQIdle ==
    /\ consume_pc = "start_consuming"
    /\ channel = [id |-> 1, is_open |-> TRUE]
    /\ delivered = {}
    /\ record_queue = <<>>
    /\ worker_holds = NoDelivery
    /\ ack_callbacks = {}
    /\ basic_acks = {}

InitAsideIdle == InitThreadsIdle /\ InitRabbitMQIdle

Init ==
    /\ InitWorker
    /\ InitNormalizeIdle
    /\ InitProcessIdle
    /\ InitAsideIdle

\* ---------------------------------------------------------------------------
\* Helpers of the actions.
\* ---------------------------------------------------------------------------

\* A returned boolean, as kept in raw and cur.
Returned(b) == IF b THEN "true" ELSE "false"

\* Where the worker of consumer class c goes after a body that is not JSON:
\* the loop "continue"s, but ReadRabbitMQWriteG2WithInfoThread.worker returns.
AfterDecodeFailure(c) == IF c = "rabbitmq_withinfo" THEN "stopped" ELSE "fetch"

\* Where an exception that send_jsonline_to_g2_engine does not catch takes the
\* thread of consumer class c: ReadQueueWriteG2Thread.run turns it into
\* exit_error, the other run methods catch nothing.
Uncaught(c) == IF c \in QueueConsumers THEN "exited" ELSE "crashed"

\* The current record, sink_write_failed, result and pc after
\* add_to_failure_queue did o for the record r and send_jsonline_to_g2_engine
\* went on to return False.
RouteToFailureQueue(r, o) ==
    /\ cur' = [r EXCEPT !.sink_attempts = @ + 1,
                        !.sink = o.sink,
                        !.sink_result = IF o.exits THEN "none" ELSE Returned(o.returns),
                        !.returned = IF o.exits THEN "none" ELSE "false"]
    /\ sink_write_failed' = (sink_write_failed \/ (~o.exits /\ ~o.returns))
    /\ result' = FALSE
    /\ pc' = IF o.exits THEN "exited" ELSE "returned"

\* ---------------------------------------------------------------------------
\* The consumer's loop: fetch, decode, iterate, acknowledge.
\* ---------------------------------------------------------------------------

\* consumer.poll / record_queue.get / sqs.receive_message / next(receiver)
\* hands the worker one delivery.
Fetch ==
    /\ pc = "fetch"
    /\ consumer \in Consumers
    /\ fetched < MaxMessages
    /\ \E outcome \in FetchOutcomes(consumer), kind \in BodyKinds, len \in 0..MaxRecords :
          /\ ~FetchedNothing(outcome)
          /\ fetch_outcome' = outcome
          /\ slept' = NoSleep
          /\ governed' = TRUE
          /\ outcome = "empty_value" => kind = "undecodable"
          /\ kind = "object" => len = 1
          /\ kind = "string" => len = 1
          /\ kind \in {"undecodable", "empty_string"} \cup NotIterableKinds => len = 0
          /\ message' = [kind |-> kind, len |-> len]
    /\ fetched' = fetched + 1
    /\ index' = 0
    /\ action' = "none"
    /\ info' = NoInfo
    /\ jsonline' = EmptyDict
    /\ json_dictionary' = EmptyDict
    /\ operation' = NoOperation
    /\ result' = FALSE
    /\ acks' = 0
    /\ sink_write_failed' = FALSE
    /\ raw' = NoRaw
    /\ cur' = NoDispatch
    /\ resolver_accepts' = 0
    /\ at_fetch' = [queued |-> counter_queued_records,
                    processed |-> counter_processed_records]
    /\ pc' = "decode"
    /\ UNCHANGED <<config_vars, reader_vars, counter_vars, engine_vars,
                   seconds_since_check>>

\* The poll or receive brought nothing to process: the loop starts over (or
\* ends, or sleeps first) and nothing else happens.
EmptyFetch ==
    /\ pc = "fetch"
    /\ consumer \in Consumers
    /\ \E outcome \in FetchOutcomes(consumer) :
          /\ FetchedNothing(outcome)
          /\ fetch_outcome' = outcome
          /\ slept' = NoSleep
          /\ governed' = TRUE
          /\ pc' = AfterEmptyFetch(consumer, outcome, exit_on_empty_queue)
    /\ message' = [kind |-> "none", len |-> 0]
    /\ index' = 0
    /\ action' = "none"
    /\ info' = NoInfo
    /\ jsonline' = EmptyDict
    /\ json_dictionary' = EmptyDict
    /\ operation' = NoOperation
    /\ result' = FALSE
    /\ acks' = 0
    /\ sink_write_failed' = FALSE
    /\ raw' = NoRaw
    /\ cur' = NoDispatch
    /\ resolver_accepts' = 0
    /\ at_fetch' = [queued |-> counter_queued_records,
                    processed |-> counter_processed_records]
    /\ UNCHANGED <<config_vars, reader_vars, fetched, counter_vars, engine_vars,
                   seconds_since_check>>

\* delay() sleeps and the loop starts over.  The two options are what
\* config.get returns when delay() is called, r is what random.random()
\* returns.
Delay ==
    /\ pc = "delay"
    /\ pc' = "fetch"
    /\ \E d \in 0..MaxDelay, randomized \in BOOLEAN, r \in 0..(RandomSteps - 1) :
          slept' = [called |-> TRUE,
                    delay_in_seconds |-> d,
                    delay_randomized |-> randomized,
                    seconds |-> SleepOfDelay(d, randomized, r)]
    /\ UNCHANGED <<config_vars, reader_vars, resolver_accepts, at_fetch,
                   fetch_outcome, governed, message, fetched, index,
                   action, info, dispatch_vars, result, counter_vars, engine_vars, seconds_since_check,
                   acks, sink_write_failed, raw, cur>>

\* json.loads raised: the body goes to add_to_failure_queue, and the delivery
\* is acknowledged if that returned True.  An exception of delete_message or
\* complete_message is not caught: the thread ends.
DecodeFailure ==
    /\ pc = "decode"
    /\ message.kind = "undecodable"
    /\ \E o \in AddToFailureQueue(consumer, failure_queue_configured,
                                  sqs_dead_letter_queue_enabled),
          ack_ok \in BOOLEAN :
          /\ raw' = [sink_attempts |-> 1, sink |-> o.sink,
                     sink_result |-> IF o.exits THEN "none" ELSE Returned(o.returns)]
          /\ sink_write_failed' = (~o.exits /\ ~o.returns)
          /\ IF o.exits
             THEN /\ acks' = acks
                  /\ pc' = "exited"
             ELSE IF AckAfterDecodeFailure(o.returns)
                  THEN /\ acks' = acks + 1
                       /\ pc' = IF ~ack_ok /\ consumer \in AckInLoopConsumers
                                THEN "crashed"
                                ELSE AfterDecodeFailure(consumer)
                  ELSE /\ acks' = acks
                       /\ pc' = AfterDecodeFailure(consumer)
    /\ counter_queued_records' =
          counter_queued_records + QueuedOnDecodeFailure(consumer)
    /\ UNCHANGED <<config_vars, reader_vars, call_vars, message, fetched, index,
                   action, info, dispatch_vars, result, counter_processed_records, engine_vars,
                   seconds_since_check, cur>>

\* json.loads returned a value; a dict is wrapped into a list of one.
DecodeSuccess ==
    /\ pc = "decode"
    /\ message.kind # "undecodable"
    /\ pc' = "loop"
    /\ UNCHANGED <<config_vars, reader_vars, call_vars, message, fetched,
                   index, action, info, dispatch_vars, result, counter_vars,
                   engine_vars, seconds_since_check, acks, sink_write_failed, raw, cur>>

\* The for statement over a number, a boolean or null raises TypeError, which
\* nothing catches: the thread ends.
IterateNotIterable ==
    /\ pc = "loop"
    /\ message.kind \in NotIterableKinds
    /\ pc' = "crashed"
    /\ UNCHANGED <<config_vars, reader_vars, call_vars, message, fetched,
                   index, action, info, dispatch_vars, result, counter_vars,
                   engine_vars, seconds_since_check, acks, sink_write_failed, raw, cur>>

\* The loop takes the next element: counts it as queued, inserts the default
\* DATA_SOURCE / ENTITY_TYPE and calls send_jsonline_to_g2_engine; govern()
\* was called at the head of the outer loop, once for the delivery.  An element
\* that is not an object (a character of a string body among them) raises
\* TypeError on the insertion.
NextRecord ==
    /\ pc = "loop"
    /\ message.kind \notin NotIterableKinds
    /\ index < message.len
    /\ index' = NextIndex(index)
    /\ counter_queued_records' = counter_queued_records + 1
    /\ cur' = NoDispatch
    /\ \E element \in {"object", "other"} :
          /\ message.kind = "object" => element = "object"
          /\ message.kind = "string" => element = "other"
          /\ pc' = IF element = "object" THEN "check_configuration" ELSE "crashed"
          /\ governed' = IF element = "object" THEN FALSE ELSE governed
    /\ UNCHANGED <<config_vars, reader_vars, resolver_accepts, at_fetch,
                   fetch_outcome, slept, message, fetched,
                   action, info, dispatch_vars, result,
                   counter_processed_records, engine_vars, seconds_since_check, acks,
                   sink_write_failed, raw>>

\* The loop is over: Kafka commits, RabbitMQ schedules basic_ack; the SQS and
\* Azure consumers do nothing more.
EndOfMessage ==
    /\ pc = "loop"
    /\ message.kind \notin NotIterableKinds
    /\ index = message.len
    /\ acks' = IF consumer \in AckAfterLoopConsumers THEN acks + 1 ELSE acks
    /\ pc' = "fetch"
    /\ UNCHANGED <<config_vars, reader_vars, call_vars, message, fetched,
                   index, action, info, dispatch_vars, result, counter_vars,
                   engine_vars, seconds_since_check, sink_write_failed, raw, cur>>

\* send_jsonline_to_g2_engine returned: a True result counts the record as
\* processed and, in the SQS and Azure consumers, acknowledges the delivery.
RecordReturned ==
    /\ pc = "returned"
    /\ consumer \in Consumers
    /\ IF RecordProcessed(result)
       THEN /\ counter_processed_records' = counter_processed_records + 1
            /\ IF consumer \in AckInLoopConsumers
               THEN \E ack_ok \in BOOLEAN :
                       /\ acks' = acks + 1
                       /\ pc' = IF ack_ok THEN "loop" ELSE "crashed"
               ELSE /\ acks' = acks
                    /\ pc' = "loop"
       ELSE /\ counter_processed_records' = counter_processed_records
            /\ acks' = acks
            /\ pc' = "loop"
    /\ action' = "none"
    /\ info' = NoInfo
    /\ jsonline' = EmptyDict
    /\ json_dictionary' = EmptyDict
    /\ operation' = NoOperation
    /\ result' = FALSE
    /\ UNCHANGED <<config_vars, reader_vars, call_vars, message, fetched,
                   index, counter_queued_records,
                   engine_vars, seconds_since_check, sink_write_failed, raw, cur>>

\* ---------------------------------------------------------------------------
\* send_jsonline_to_g2_engine, step by step.
\* ---------------------------------------------------------------------------

\* The periodic check: when it is time, compare the configuration ids and
\* reinitialize on a difference.  An exception of
\* update_active_g2_configuration is not caught: the thread ends.
CheckConfiguration ==
    /\ pc = "check_configuration"
    /\ IF IsTimeToCheckG2Configuration(seconds_since_check)
       THEN /\ seconds_since_check' = 0
            /\ \E config_manager_ok \in BOOLEAN, update \in {"ok", "raises"} :
                  IF IsG2DefaultConfigurationChanged(active_config_id, default_config_id,
                                                     config_manager_ok)
                  THEN IF update = "ok"
                       THEN /\ active_config_id' = default_config_id
                            /\ pc' = "lookup"
                       ELSE /\ active_config_id' = active_config_id
                            /\ pc' = Uncaught(consumer)
                  ELSE /\ active_config_id' = active_config_id
                       /\ pc' = "lookup"
       ELSE /\ seconds_since_check' = seconds_since_check
            /\ active_config_id' = active_config_id
            /\ pc' = "lookup"
    /\ UNCHANGED <<config_vars, reader_vars, call_vars, message, fetched,
                   index, action, info, dispatch_vars, result, counter_vars,
                   default_config_id, acks, sink_write_failed, raw, cur>>

\* json.loads of the line: the lines of a broker consumer are records it
\* serialized itself, a line of the queue may be anything, and what is not an
\* object raises (json.loads, or pop on what is no dict).  Then the record's
\* directive d is taken out, its action is turned into a method name and
\* looked up.  A directive that is not an object has no get():
\* AttributeError, uncaught.  A missing method sends the line to
\* add_to_failure_queue and returns False.
LookupMethod ==
    /\ pc = "lookup"
    /\ IF consumer \in QueueConsumers /\ message.kind # "object"
       THEN /\ pc' = Uncaught(consumer)
            /\ UNCHANGED <<action, info, dispatch_vars, cur, result, sink_write_failed>>
       ELSE \E d \in Directives :
          LET a == StreamLoaderAction(d, consumer)
              r == [cur EXCEPT !.unknown_action = (d = "unknown")]
          IN  /\ action' = a
              /\ jsonline' = Record(d)
              /\ json_dictionary' = Pop(Record(d), stream_loader_directive_name)
              /\ UNCHANGED <<info, operation>>
              /\ IF d = "not_object"
                 THEN /\ pc' = Uncaught(consumer)
                      /\ cur' = cur
                      /\ UNCHANGED <<result, sink_write_failed>>
                 ELSE IF ~MethodExists(a)
                      THEN \E o \in AddToFailureQueue(consumer, failure_queue_configured,
                                                      sqs_dead_letter_queue_enabled) :
                              RouteToFailureQueue(r, o)
                      ELSE /\ pc' = "call"
                           /\ cur' = r
                           /\ UNCHANGED <<result, sink_write_failed>>
    /\ UNCHANGED <<config_vars, reader_vars, call_vars, message, fetched,
                   index, counter_vars, engine_vars,
                   seconds_since_check, acks, raw>>

\* The current record, result and pc after the resolver operation returned
\* without exception: a *WithInfo method with a non-empty response_json has
\* it filtered, and hands a non-empty result to add_to_info_queue, which did
\* io.
ResolverAccepted(response_json, filtered, io) ==
    LET filters == response_json \notin {"none", ""}
        publishes == filters /\ filtered # ""
        exits == publishes /\ io.exits
    IN  /\ cur' = [cur EXCEPT !.calls = @ + 1,
                              !.accepted = TRUE,
                              !.returned = IF exits THEN "none" ELSE "true"]
        /\ info' = [response_json |-> response_json,
                    filtered_response_json |-> IF filters THEN filtered ELSE "none",
                    calls |-> IF publishes THEN info.calls + 1 ELSE info.calls,
                    sent |-> IF publishes THEN filtered ELSE info.sent,
                    published |-> publishes /\ io.published]
        /\ result' = TRUE
        /\ pc' = IF exits THEN "exited" ELSE "returned"

\* What a call of a resolver operation does: it returns, it raises an
\* exception about the record or the database, or it raises
\* G2ModuleNotInitialized.
ResolverOutcomes == {"ok", "raises", "not_initialized"}

\* method_to_call(...): the first call of the resolver operation.
InvokeResolver ==
    /\ pc = "call"
    /\ \E outcome \in ResolverOutcomes, response_json \in Responses(action),
          io \in AddToInfoQueue(consumer) :
          IF outcome = "ok"
          THEN /\ \E filtered \in FilterInfoMessage(info_filter, response_json) :
                     ResolverAccepted(response_json, filtered, io)
               /\ resolver_accepts' = resolver_accepts + 1
          ELSE /\ cur' = [cur EXCEPT !.calls = @ + 1, !.raised = @ + 1,
                                     !.not_initialized = (outcome = "not_initialized")]
               /\ info' = info
               /\ resolver_accepts' = resolver_accepts
               /\ result' = result
               /\ pc' = "recheck"
    /\ operation' = EngineCall(action, json_dictionary)
    /\ UNCHANGED <<config_vars, reader_vars, at_fetch, fetch_outcome, slept, governed, message, fetched,
                   index, action, jsonline, json_dictionary, counter_vars,
                   engine_vars, seconds_since_check, acks, sink_write_failed, raw>>

\* The except clause: re-check the configuration; on a change reinitialize
\* and go on to the second call, otherwise send the line to
\* add_to_failure_queue and return False.  An exception of
\* update_active_g2_configuration is not caught: the thread ends.  The
\* clause is the same for every exception, G2ModuleNotInitialized included.
RecheckConfiguration ==
    /\ pc = "recheck"
    /\ seconds_since_check' = 0
    /\ \E config_manager_ok \in BOOLEAN, update \in {"ok", "raises"},
          o \in AddToFailureQueue(consumer, failure_queue_configured,
                                  sqs_dead_letter_queue_enabled) :
          LET changed == IsG2DefaultConfigurationChanged(
                             active_config_id, default_config_id, config_manager_ok)
              plan == OnResolverException(changed)
              seen == [cur EXCEPT !.drift = changed]
          IN  IF plan = "retry"
              THEN /\ active_config_id' =
                          IF update = "ok" THEN default_config_id ELSE active_config_id
                   /\ cur' = [seen EXCEPT !.reinit = (update = "ok")]
                   /\ pc' = IF update = "ok" THEN "retry" ELSE Uncaught(consumer)
                   /\ UNCHANGED <<result, sink_write_failed>>
              ELSE /\ active_config_id' = active_config_id
                   /\ RouteToFailureQueue(seen, o)
    /\ UNCHANGED <<config_vars, reader_vars, call_vars, message, fetched,
                   index, action, info, dispatch_vars, counter_vars,
                   default_config_id, acks, raw>>

\* The second call of the resolver operation, after the reinitialization; if
\* it raises too, the line goes to add_to_failure_queue.
RetryResolver ==
    /\ pc = "retry"
    /\ \E outcome \in {"ok", "raises"}, response_json \in Responses(action),
          io \in AddToInfoQueue(consumer),
          o \in AddToFailureQueue(consumer, failure_queue_configured,
                                  sqs_dead_letter_queue_enabled) :
          IF outcome = "ok"
          THEN /\ \E filtered \in FilterInfoMessage(info_filter, response_json) :
                     ResolverAccepted(response_json, filtered, io)
               /\ resolver_accepts' = resolver_accepts + 1
               /\ sink_write_failed' = sink_write_failed
          ELSE /\ RouteToFailureQueue([cur EXCEPT !.calls = @ + 1, !.raised = @ + 1], o)
               /\ info' = info
               /\ resolver_accepts' = resolver_accepts
    /\ operation' = EngineCall(action, json_dictionary)
    /\ UNCHANGED <<config_vars, reader_vars, at_fetch, fetch_outcome, slept, governed, message, fetched,
                   index, action, jsonline, json_dictionary, counter_vars,
                   engine_vars, seconds_since_check, acks, raw>>

\* ---------------------------------------------------------------------------
\* The url and stdin subcommands: reader thread, queue, writer thread.
\* ---------------------------------------------------------------------------

\* What output_line_function does with a line of the given kind:
\* result_function_1 puts the stripped line into the queue as it is; the
\* functions that insert a default DATA_SOURCE / ENTITY_TYPE parse it first,
\* and raise on what is not a JSON object.
OutputLine(parses, kind) ==
    IF parses
    THEN IF kind = "object" THEN "put" ELSE "raise"
    ELSE "put"

\* How much input_lines_from_stdin / input_lines_from_file add to
\* counter_queued_records when readline returns the end of the input.
QueuedAtEndOfInput(c) == IF c = "stdin" THEN 1 ELSE 0

\* The reader reads one line, counts it and hands it to output_line_function.
ReadLine ==
    /\ reader_pc = "reading"
    /\ lines_read < MaxLines
    /\ lines_read' = lines_read + 1
    /\ counter_queued_records' = counter_queued_records + 1
    /\ \E kind \in BodyKinds :
          IF OutputLine(reader_parses, kind) = "put"
          THEN /\ work_queue' = Append(work_queue, kind)
               /\ reader_pc' = "reading"
          ELSE /\ work_queue' = work_queue
               /\ reader_pc' = "crashed"
    /\ UNCHANGED <<config_vars, call_vars, pc, message, fetched, index, action,
                   info, dispatch_vars, result,
                   counter_processed_records, engine_vars, seconds_since_check, acks,
                   sink_write_failed, raw, cur>>

\* readline returns the empty string, or the file has no further line: the
\* reader thread ends.
ReadEndOfInput ==
    /\ reader_pc = "reading"
    /\ reader_pc' = "done"
    /\ counter_queued_records' = counter_queued_records + QueuedAtEndOfInput(consumer)
    /\ UNCHANGED <<config_vars, call_vars, pc, message, fetched, index, action,
                   info, dispatch_vars, result,
                   counter_processed_records, engine_vars, seconds_since_check, acks,
                   sink_write_failed, raw, cur, lines_read, work_queue>>

\* ReadQueueWriteG2Thread.run takes a line from the queue and calls
\* send_jsonline_to_g2_engine with it.
QueueGet ==
    /\ pc = "fetch"
    /\ consumer \in QueueConsumers
    /\ work_queue # <<>>
    /\ message' = [kind |-> Head(work_queue),
                   len |-> IF Head(work_queue) = "object" THEN 1 ELSE 0]
    /\ work_queue' = Tail(work_queue)
    /\ fetched' = fetched + 1
    /\ index' = 0
    /\ action' = "none"
    /\ info' = NoInfo
    /\ jsonline' = EmptyDict
    /\ json_dictionary' = EmptyDict
    /\ operation' = NoOperation
    /\ result' = FALSE
    /\ acks' = 0
    /\ sink_write_failed' = FALSE
    /\ raw' = NoRaw
    /\ cur' = NoDispatch
    /\ resolver_accepts' = 0
    /\ at_fetch' = [queued |-> counter_queued_records,
                    processed |-> counter_processed_records]
    /\ fetch_outcome' = "message"
    /\ slept' = NoSleep
    /\ governed' = FALSE
    /\ pc' = "check_configuration"
    /\ UNCHANGED <<config_vars, counter_vars, engine_vars, seconds_since_check,
                   reader_pc, lines_read>>

\* send_jsonline_to_g2_engine returned to ReadQueueWriteG2Thread.run, which
\* counts the line as processed without looking at the result.
QueueRecordReturned ==
    /\ pc = "returned"
    /\ consumer \in QueueConsumers
    /\ counter_processed_records' = counter_processed_records + 1
    /\ action' = "none"
    /\ info' = NoInfo
    /\ jsonline' = EmptyDict
    /\ json_dictionary' = EmptyDict
    /\ operation' = NoOperation
    /\ result' = FALSE
    /\ pc' = "fetch"
    /\ UNCHANGED <<config_vars, reader_vars, call_vars, message, fetched, index,
                   counter_queued_records, engine_vars, seconds_since_check, acks,
                   sink_write_failed, raw, cur>>

\* ---------------------------------------------------------------------------
\* The environment.
\* ---------------------------------------------------------------------------

\* Time passes.  The program reads the clock only at the start of a dispatch
\* (is_time_to_check_g2_configuration), so the time that passed since the
\* last reading is added there.  Once the periodic check is due, more time
\* changes nothing the program reads, so it is not counted further.
Tick ==
    /\ pc = "check_configuration"
    /\ ~IsTimeToCheckG2Configuration(seconds_since_check)
    /\ seconds_since_check' = seconds_since_check + 1
    /\ UNCHANGED <<config_vars, reader_vars, call_vars, pc, message, fetched,
                   index, action, info, dispatch_vars, result,
                   counter_vars, engine_vars, acks, sink_write_failed, raw, cur>>

\* Somebody stores a new default configuration in the resolver's database.
\* The program reads it only in the periodic check and in the except clause
\* (getDefaultConfigID), so a change since the last reading shows there.
ChangeDefaultConfiguration ==
    /\ pc \in {"check_configuration", "recheck"}
    /\ \E id \in ConfigIds \ {default_config_id} : default_config_id' = id
    /\ UNCHANGED <<config_vars, reader_vars, call_vars, pc, message, fetched,
                   index, action, info, dispatch_vars, result,
                   counter_vars, active_config_id, seconds_since_check, acks,
                   sink_write_failed, raw, cur>>

Next ==
    \/ Fetch
    \/ EmptyFetch
    \/ Delay
    \/ DecodeFailure
    \/ DecodeSuccess
    \/ IterateNotIterable
    \/ NextRecord
    \/ EndOfMessage
    \/ RecordReturned
    \/ CheckConfiguration
    \/ LookupMethod
    \/ InvokeResolver
    \/ RecheckConfiguration
    \/ RetryResolver
    \/ ReadLine
    \/ ReadEndOfInput
    \/ QueueGet
    \/ QueueRecordReturned
    \/ Tick
    \/ ChangeDefaultConfiguration

Spec == Init /\ [][Next]_vars

\* ---------------------------------------------------------------------------
\* Normalization of a record: what each source does to a dictionary before it
\* is dispatched, followed on its own for every record and every setting of
\* the options data_source and entity_type.
\* ---------------------------------------------------------------------------

\* Everything the worker's loop and the reader keep.
worker_vars ==
    <<option_vars, pc, message, fetched, index, action, result, counter_vars,
      engine_vars, seconds_since_check, acks, sink_write_failed, raw, cur,
      call_vars, reader_vars, info, dispatch_vars>>

\* The keys of the records that are normalized and the values they may hold.
RecordKeys == {"DATA_SOURCE", "ENTITY_TYPE", "NAME"}

RecordValues(k) ==
    CASE k = "DATA_SOURCE" -> {"A", None}
      [] k = "ENTITY_TYPE" -> {"E"}
      [] OTHER -> {"Bob"}

Records ==
    UNION {{d \in [keys -> {"A", "E", "Bob", None}] :
                \A k \in keys : d[k] \in RecordValues(k)} :
           keys \in SUBSET RecordKeys}

\* An assignment that replaces what the record holds under the key.
OverwriteWithDefault(dict, key, value) ==
    [k \in DOMAIN dict \cup {key} |-> IF k = key THEN value ELSE dict[k]]

\* if key not in dict: dict[key] = value
InsertDefault(dict, key, value) ==
    IF key \in DOMAIN dict
    THEN dict
    ELSE [k \in DOMAIN dict \cup {key} |-> IF k = key THEN value ELSE dict[k]]

\* The two tests of a consumer's loop, with whatever the options hold.
BrokerNormalize(dict, ds, et) ==
    InsertDefault(InsertDefault(dict, "DATA_SOURCE", ds), "ENTITY_TYPE", et)

\* The function create_output_line_function_factory returns.
ResultFunction(ds, et) ==
    IF ds # None /\ et # None THEN 4
    ELSE IF et # None THEN 3
    ELSE IF ds # None THEN 2
    ELSE 1

\* What the reader of a URL or of STDIN puts into the queue for a line, as the
\* dictionary the dispatch loads from it.
UrlNormalize(dict, ds, et) ==
    CASE ResultFunction(ds, et) = 1 -> dict
      [] ResultFunction(ds, et) = 2 -> InsertDefault(dict, "DATA_SOURCE", ds)
      [] ResultFunction(ds, et) = 3 -> InsertDefault(dict, "ENTITY_TYPE", et)
      [] OTHER -> BrokerNormalize(dict, ds, et)

\* The normalization of the source c.
Normalize(c, dict, ds, et) ==
    IF c \in QueueConsumers
    THEN UrlNormalize(dict, ds, et)
    ELSE BrokerNormalize(dict, ds, et)

\* A source, its two options and a record it delivers.
InitNormalize ==
    /\ InitWorker
    /\ ~failure_queue_configured
    /\ ~sqs_dead_letter_queue_enabled
    /\ ~exit_on_empty_queue
    /\ info_filter = "InfoFilter"
    /\ data_source \in {None, "D"}
    /\ entity_type \in {None, "T"}
    /\ reader_parses = (consumer \in QueueConsumers
                            /\ (data_source # None \/ entity_type # None))
    /\ line_dictionary \in Records
    /\ normalized = EmptyDict
    /\ normalized_twice = EmptyDict
    /\ normalize_pc = "read"
    /\ InitProcessIdle
    /\ InitAsideIdle

\* The source normalizes the record it read.
NormalizeRecord ==
    /\ normalize_pc = "read"
    /\ normalized' = Normalize(consumer, line_dictionary, data_source, entity_type)
    /\ normalize_pc' = "normalized"
    /\ UNCHANGED <<worker_vars, process_vars, aside_vars, data_source, entity_type,
                   line_dictionary, normalized_twice>>

\* The normalized record goes through the same source once more.
NormalizeAgain ==
    /\ normalize_pc = "normalized"
    /\ normalized_twice' = Normalize(consumer, normalized, data_source, entity_type)
    /\ normalize_pc' = "normalized_twice"
    /\ UNCHANGED <<worker_vars, process_vars, aside_vars, data_source, entity_type,
                   line_dictionary, normalized>>

NextNormalize ==
    \/ NormalizeRecord
    \/ NormalizeAgain

SpecNormalize == InitNormalize /\ [][NextNormalize]_vars

\* ---------------------------------------------------------------------------
\* The process: the main thread of a consumer subcommand, its worker threads,
\* the monitor thread, the engine they share, signals and the log.
\* ---------------------------------------------------------------------------

\* The subcommands whose function joins the admin threads before it destroys
\* the engine: dohelper_thread_runner (azure-queue, sqs) and UrlProcess.run do,
\* do_kafka, do_kafka_withinfo, do_rabbitmq and do_rabbitmq_withinfo join
\* the worker threads only.
JoinsAdminThreads(c) ==
    c \notin {"kafka", "kafka_withinfo", "rabbitmq", "rabbitmq_withinfo"}

\* keys_to_redact, as far as the configuration followed here has them.
keys_to_redact ==
    {"engine_configuration_json", "g2_database_url_generic", "rabbitmq_password"}

\* redact_configuration: a copy of the configuration without keys_to_redact.
RedactConfiguration(keys) == keys \ keys_to_redact

\* The configuration entry_template and exit_template dump.
FinalConfig(keys, d) == IF d THEN keys ELSE RedactConfiguration(keys)

\* get_g2_configuration_json: the option engine_configuration_json if it is
\* set, otherwise a document built from the database URL.
GetG2ConfigurationJson(keys) ==
    IF "engine_configuration_json" \in keys
    THEN {"engine_configuration_json"}
    ELSE {"g2_database_url_generic"}

\* The keys of the configuration that the argument parser has an option for
\* (the database URL comes from the environment only).
CommandLineKeys ==
    {"subcommand", "debug", "engine_configuration_json", "rabbitmq_password"}

\* A log message: its number and the configuration keys whose values it shows.
LogMessage(id, keys) == [id |-> id, keys |-> keys]

\* The threads that keep the interpreter from exiting.
ThreadsAlive ==
    \/ \E w \in Workers : workers[w] = "running"
    \/ monitor_pc \notin {"not_started", "finished"}

\* The main thread has called its subcommand function.
InitProcess ==
    /\ InitWorker
    /\ ~reader_parses
    /\ ~failure_queue_configured
    /\ ~sqs_dead_letter_queue_enabled
    /\ ~exit_on_empty_queue
    /\ info_filter = "InfoFilter"
    /\ InitNormalizeIdle
    /\ InitAsideIdle
    /\ main_pc = "common_prolog"
    /\ workers = [w \in Workers |-> "not_started"]
    /\ monitor_pc = "not_started"
    /\ g2_engine = "none"
    /\ exit_code = "none"
    /\ \E optional \in SUBSET {"engine_configuration_json", "rabbitmq_password"} :
          config = {"subcommand", "debug", "g2_database_url_generic"} \cup optional
    /\ debug \in BOOLEAN
    /\ args \in {{"subcommand"}, config \cap CommandLineKeys}
    /\ log = {}
    /\ signalled = FALSE
    /\ fatal_reported = FALSE
    /\ processed_after_fatal = FALSE
    /\ after_destroy = {}

\* common_prolog: logging.info(entry_template(config)).
CommonProlog ==
    /\ main_pc = "common_prolog"
    /\ log' = log \cup {LogMessage(297, FinalConfig(config, debug))}
    /\ main_pc' = "get_g2_engine"
    /\ UNCHANGED <<worker_vars, normalize_vars, aside_vars, workers, monitor_pc, g2_engine,
                   exit_code, config, debug, args, signalled, fatal_reported,
                   processed_after_fatal, after_destroy>>

\* get_g2_engine: G2Engine().init(...); a G2ModuleException ends in
\* exit_error(898, g2_configuration_json, err), which is sys.exit(1) on the
\* main thread before any thread was started.
\* Subcommands whose main thread is dohelper_thread_runner, which sleeps
\* before it starts any thread.
SleepsBeforeThreads(c) ==
    c \in {"azure", "azure_withinfo", "sqs", "sqs_withinfo"}

\* Subcommands whose do_ function sleeps between the start of the worker
\* threads and the start of the monitor thread.
SleepsAfterThreads(c) ==
    c \in {"kafka", "kafka_withinfo", "rabbitmq", "rabbitmq_withinfo"}

\* Where the main thread goes once the engine is there, and once the
\* worker threads are started: to the sleep when the subcommand has it at
\* that place and sleep_time_in_seconds is positive.
AfterGetG2Engine(c, sleep_time_in_seconds) ==
    IF SleepsBeforeThreads(c) /\ sleep_time_in_seconds > 0
    THEN "sleep"
    ELSE "start_threads"

AfterStartThreads(c, sleep_time_in_seconds) ==
    IF SleepsAfterThreads(c) /\ sleep_time_in_seconds > 0
    THEN "sleep"
    ELSE "start_admin_threads"

GetG2Engine ==
    /\ main_pc = "get_g2_engine"
    /\ \E initialized \in BOOLEAN, sleep_time_in_seconds \in 0..1 :
          IF initialized
          THEN /\ g2_engine' = "initialized"
               /\ main_pc' = AfterGetG2Engine(consumer, sleep_time_in_seconds)
               /\ UNCHANGED <<log, fatal_reported>>
          ELSE /\ g2_engine' = g2_engine
               /\ log' = log \cup {LogMessage(898, GetG2ConfigurationJson(config))}
               /\ fatal_reported' = TRUE
               /\ main_pc' = "exit_1"
    /\ UNCHANGED <<worker_vars, normalize_vars, aside_vars, workers, monitor_pc, exit_code,
                   config, debug, args, signalled, processed_after_fatal,
                   after_destroy>>

\* for thread in threads: thread.start()
StartThreads ==
    /\ main_pc = "start_threads"
    /\ workers' = [w \in Workers |-> "running"]
    /\ \E sleep_time_in_seconds \in 0..1 :
          main_pc' = AfterStartThreads(consumer, sleep_time_in_seconds)
    /\ UNCHANGED <<worker_vars, normalize_vars, aside_vars, monitor_pc, g2_engine, exit_code,
                   config, debug, args, log, signalled, fatal_reported,
                   processed_after_fatal, after_destroy>>

\* time.sleep(sleep_time_in_seconds), when it is positive.
SleepIfRequested ==
    /\ main_pc = "sleep"
    /\ main_pc' = IF SleepsBeforeThreads(consumer)
                  THEN "start_threads"
                  ELSE "start_admin_threads"
    /\ UNCHANGED <<worker_vars, normalize_vars, aside_vars, workers, monitor_pc, g2_engine,
                   exit_code, config, debug, args, log, signalled,
                   fatal_reported, processed_after_fatal, after_destroy>>

\* for thread in admin_threads: thread.start()
StartAdminThreads ==
    /\ main_pc = "start_admin_threads"
    /\ monitor_pc' = "count"
    /\ main_pc' = "join_threads"
    /\ UNCHANGED <<worker_vars, normalize_vars, aside_vars, workers, g2_engine, exit_code,
                   config, debug, args, log, signalled, fatal_reported,
                   processed_after_fatal, after_destroy>>

\* for thread in threads: thread.join()
JoinThreads ==
    /\ main_pc = "join_threads"
    /\ \A w \in Workers : workers[w] # "running"
    /\ main_pc' = IF JoinsAdminThreads(consumer)
                  THEN "join_admin_threads"
                  ELSE "destroy"
    /\ UNCHANGED <<worker_vars, normalize_vars, aside_vars, workers, monitor_pc, g2_engine,
                   exit_code, config, debug, args, log, signalled,
                   fatal_reported, processed_after_fatal, after_destroy>>

\* for thread in admin_threads: thread.join()
JoinAdminThreads ==
    /\ main_pc = "join_admin_threads"
    /\ monitor_pc = "finished"
    /\ main_pc' = "destroy"
    /\ UNCHANGED <<worker_vars, normalize_vars, aside_vars, workers, monitor_pc, g2_engine,
                   exit_code, config, debug, args, log, signalled,
                   fatal_reported, processed_after_fatal, after_destroy>>

\* g2_engine.destroy()
DestroyEngine ==
    /\ main_pc = "destroy"
    /\ g2_engine' = "destroyed"
    /\ main_pc' = "epilog"
    /\ UNCHANGED <<worker_vars, normalize_vars, aside_vars, workers, monitor_pc, exit_code,
                   config, debug, args, log, signalled, fatal_reported,
                   processed_after_fatal, after_destroy>>

\* logging.info(exit_template(config)); the subcommand function returns.
Epilog ==
    /\ main_pc = "epilog"
    /\ log' = log \cup {LogMessage(298, FinalConfig(config, debug))}
    /\ main_pc' = "exit_0"
    /\ UNCHANGED <<worker_vars, normalize_vars, aside_vars, workers, monitor_pc, g2_engine,
                   exit_code, config, debug, args, signalled, fatal_reported,
                   processed_after_fatal, after_destroy>>

\* SIGTERM or SIGINT while the subcommand function runs: the handler logs
\* message 298 with args and calls sys.exit(0); the SystemExit unwinds the
\* main thread from wherever it is.
SignalHandler ==
    /\ main_pc \in {"common_prolog", "get_g2_engine", "sleep", "start_threads",
                    "start_admin_threads", "join_threads", "join_admin_threads",
                    "destroy", "epilog"}
    /\ log' = log \cup {LogMessage(298, args)}
    /\ signalled' = TRUE
    /\ main_pc' = "exit_0"
    /\ UNCHANGED <<worker_vars, normalize_vars, aside_vars, workers, monitor_pc, g2_engine,
                   exit_code, config, debug, args, fatal_reported,
                   processed_after_fatal, after_destroy>>

\* The main thread is gone and the interpreter has waited for the threads,
\* none of which is a daemon: the process ends with the code of the main
\* thread's SystemExit, or 0.
ProcessExit ==
    /\ main_pc \in {"exit_0", "exit_1"}
    /\ ~ThreadsAlive
    /\ exit_code' = IF main_pc = "exit_1" THEN "1" ELSE "0"
    /\ main_pc' = "terminated"
    /\ UNCHANGED <<worker_vars, normalize_vars, aside_vars, workers, monitor_pc, g2_engine,
                   config, debug, args, log, signalled, fatal_reported,
                   processed_after_fatal, after_destroy>>

\* A worker thread takes a record through the engine.
WorkerProcess(w) ==
    /\ workers[w] = "running"
    /\ processed_after_fatal' = (processed_after_fatal \/ fatal_reported)
    /\ after_destroy' = IF g2_engine = "destroyed"
                        THEN after_destroy \cup {"worker"}
                        ELSE after_destroy
    /\ UNCHANGED <<worker_vars, normalize_vars, aside_vars, main_pc, workers, monitor_pc,
                   g2_engine, exit_code, config, debug, args, log, signalled,
                   fatal_reported>>

\* A worker's run method returns, or an exception nothing catches ends it.
WorkerFinish(w) ==
    /\ workers[w] = "running"
    /\ workers' = [workers EXCEPT ![w] = "finished"]
    /\ UNCHANGED <<worker_vars, normalize_vars, aside_vars, main_pc, monitor_pc, g2_engine,
                   exit_code, config, debug, args, log, signalled,
                   fatal_reported, processed_after_fatal, after_destroy>>

\* A worker calls exit_error: two messages are logged and sys.exit(1) raises
\* SystemExit in the calling thread, which ends that thread.
WorkerExitError(w) ==
    /\ workers[w] = "running"
    /\ workers' = [workers EXCEPT ![w] = "exited"]
    /\ log' = log \cup {LogMessage(880, {}), LogMessage(698, {})}
    /\ fatal_reported' = TRUE
    /\ UNCHANGED <<worker_vars, normalize_vars, aside_vars, main_pc, monitor_pc, g2_engine,
                   exit_code, config, debug, args, signalled,
                   processed_after_fatal, after_destroy>>

\* Whether the list the MonitorThread is given holds the monitor itself:
\* UrlProcess.__init__ passes self.threads and then appends the monitor to
\* that same list; the other subcommands pass threads and keep the monitor in
\* admin_threads.
WatchesItself(c) == c \in QueueConsumers

\* The threads in self.workers for which is_alive() holds, counted by the
\* running monitor.
ActiveWorkers(c) ==
    Cardinality({w \in Workers : workers[w] = "running"})
        + (IF WatchesItself(c) THEN 1 ELSE 0)

\* MonitorThread.run counts the threads of self.workers that are alive and
\* leaves its loop when there is none.
MonitorCount ==
    /\ monitor_pc = "count"
    /\ monitor_pc' = IF ActiveWorkers(consumer) > 0 THEN "stats" ELSE "finished"
    /\ UNCHANGED <<worker_vars, normalize_vars, aside_vars, main_pc, workers, g2_engine,
                   exit_code, config, debug, args, log, signalled,
                   fatal_reported, processed_after_fatal, after_destroy>>

\* The body of the monitor's loop: the statistics are logged and
\* self.g2_engine.stats is called.
MonitorStats ==
    /\ monitor_pc = "stats"
    /\ log' = log \cup {LogMessage(127, {})}
    /\ after_destroy' = IF g2_engine = "destroyed"
                        THEN after_destroy \cup {"stats"}
                        ELSE after_destroy
    /\ monitor_pc' = "sleep"
    /\ UNCHANGED <<worker_vars, normalize_vars, aside_vars, main_pc, workers, g2_engine,
                   exit_code, config, debug, args, signalled, fatal_reported,
                   processed_after_fatal>>

\* time.sleep(self.sleep_time_in_seconds) is over.
MonitorSleep ==
    /\ monitor_pc = "sleep"
    /\ monitor_pc' = "count"
    /\ UNCHANGED <<worker_vars, normalize_vars, aside_vars, main_pc, workers, g2_engine,
                   exit_code, config, debug, args, log, signalled,
                   fatal_reported, processed_after_fatal, after_destroy>>

NextProcess ==
    \/ CommonProlog
    \/ GetG2Engine
    \/ SleepIfRequested
    \/ StartThreads
    \/ StartAdminThreads
    \/ JoinThreads
    \/ JoinAdminThreads
    \/ DestroyEngine
    \/ Epilog
    \/ SignalHandler
    \/ ProcessExit
    \/ \E w \in Workers : WorkerProcess(w)
    \/ \E w \in Workers : WorkerFinish(w)
    \/ \E w \in Workers : WorkerExitError(w)
    \/ MonitorCount
    \/ MonitorStats
    \/ MonitorSleep

SpecProcess == InitProcess /\ [][NextProcess]_vars

\* ---------------------------------------------------------------------------
\* Properties.
\* ---------------------------------------------------------------------------

\* The worker is through with the delivery it fetched and back at the fetch.
Finished == pc = "fetch" /\ fetched > 0

\* The body decoded to a JSON value that is neither an object nor an array.
ScalarKinds == NotIterableKinds \cup {"string", "empty_string"}

\* After send_jsonline_to_g2_engine returned for the current record.
Dispatched == cur.returned # "none"

\* C1: a delivery is acknowledged at most once, also when its body is an
\* array of several records.
C1_AckAtMostOnce == acks <= 1

\* C2: a decoded delivery is acknowledged only after every one of its records
\* has been dispatched: no acknowledgement exists while a record of the list
\* is still to come or still being dispatched.
C2_AckOnlyAfterAllRecords ==
    (acks > 0 /\ message.kind # "undecodable")
        => /\ index = message.len
           /\ index > 0 => Dispatched

\* C3: once the worker is through with a message, the record it dispatched
\* was either accepted by the resolver or is in the failure sink, not both
\* and not neither.
C3_AcceptedXorInFailureSink ==
    (Finished /\ index > 0) => (cur.accepted # (cur.sink # "none"))

\* C4: a delivery for which add_to_failure_queue returned False is not
\* acknowledged.
C4_NoAckAfterFailedSinkWrite == sink_write_failed => acks = 0

C6_ScalarRoutedToFailureSink ==
    (message.kind \in ScalarKinds /\ pc \notin {"decode", "loop"})
        => /\ raw.sink_attempts = 1
           /\ pc = "fetch"
           /\ cur.calls = 0

C8_UnknownActionAcked ==
    (consumer \in Consumers /\ Finished /\ cur.unknown_action /\ cur.sink # "none")
        => acks >= 1

\* C9: send_jsonline_to_g2_engine returns True exactly when the record was
\* delivered to the resolver or to the failure queue.
C9_ReturnsTrueIffHandled ==
    Dispatched => ((cur.returned = "true") <=> (cur.accepted \/ cur.sink # "none"))

C11_DriftRepairedWhenCheckIsDue ==
    [][(/\ pc = "check_configuration"
        /\ pc' # pc
        /\ IsTimeToCheckG2Configuration(seconds_since_check)
        /\ active_config_id # default_config_id)
          => (active_config_id' = default_config_id /\ pc' = "lookup")]_vars

\* C12: after a body that is not JSON was handed to add_to_failure_queue and
\* acknowledged or left alone, the worker thread is back at the fetch.
C12_PoisonDoesNotStopWorker ==
    (message.kind = "undecodable" /\ raw.sink_result # "none" /\ pc # "crashed")
        => pc = "fetch"

\* The pc values inside send_jsonline_to_g2_engine and right after it.
DispatchPcs == {"check_configuration", "lookup", "call", "recheck", "retry", "returned"}

\* What the delivery being processed has added to the two counters.
QueuedInDelivery == counter_queued_records - at_fetch.queued

ProcessedInDelivery == counter_processed_records - at_fetch.processed

C14_ProcessedCountsAcceptedRecords ==
    Finished => ProcessedInDelivery = resolver_accepts

\* C15: counter_queued_records grows by one per record taken from a decoded
\* body, and in the url and stdin reader it is the number of lines read.
C15_QueuedCountsRecords ==
    /\ (consumer \in Consumers /\ message.kind \in {"object", "array"})
          => QueuedInDelivery = index
    /\ consumer \in QueueConsumers => counter_queued_records = lines_read

\* C16: while and after a broker consumer handles a body that is not JSON,
\* both counters have the values they had when the delivery was fetched.
C16_UndecodableLeavesCounters ==
    (consumer \in Consumers /\ message.kind = "undecodable")
        => QueuedInDelivery = 0 /\ ProcessedInDelivery = 0

\* C16 witness: a body that is not JSON has been handed to
\* add_to_failure_queue and the worker is through with it.
C16_Witness ==
    /\ consumer \in Consumers
    /\ message.kind = "undecodable"
    /\ raw.sink_attempts = 1
    /\ pc \in {"fetch", "stopped"}

\* What the claim calls an empty fetch.
EmptyOutcomes == {"poll_none", "partition_eof", "empty_value", "no_messages"}

\* C17: after a poll or receive that brought nothing (poll None, the
\* partition's end, an empty value; no Messages) nothing was written to the
\* failure sink, nothing acknowledged, no record dispatched, no resolver
\* operation called and neither counter changed, and the worker is back at
\* the fetch, asleep in delay() or, with exit_on_empty_queue, out of its loop.
C17_EmptyFetchChangesNothing ==
    fetch_outcome \in EmptyOutcomes
        => /\ raw = NoRaw
           /\ cur = NoDispatch
           /\ ~sink_write_failed
           /\ acks = 0
           /\ resolver_accepts = 0
           /\ operation = NoOperation
           /\ QueuedInDelivery = 0
           /\ ProcessedInDelivery = 0
           /\ pc \in {"fetch", "delay", "stopped"}

\* C17 witness: a Kafka poll returned a message with an empty value after a
\* delivery had been processed and counted.
C17_Witness ==
    /\ fetch_outcome = "empty_value"
    /\ fetched > 0
    /\ counter_queued_records > 0
    /\ pc = "fetch"

C19_DirectiveSelectsOperation ==
    operation.method # "none"
        => /\ DirectiveOf(jsonline) \in {"absent", "no_action"}
                 => operation.method = IF consumer \in WithInfoConsumers
                                       THEN "addRecordWithInfo"
                                       ELSE "addRecord"
           /\ DirectiveOf(jsonline) \in KnownActions
                 => operation.method = DirectiveOf(jsonline)

\* C19 witness: a withinfo consumer dispatched a record whose directive has
\* no action, and addRecordWithInfo was called and returned.
C19_Witness ==
    /\ consumer \in WithInfoConsumers
    /\ DirectiveOf(jsonline) = "no_action"
    /\ operation.method = "addRecordWithInfo"
    /\ cur.accepted
    /\ pc = "returned"

\* C20: whenever a resolver operation has been called for a record, the
\* record it was given (if any) is the dispatched record without the
\* directive key, and a record whose directive names deleteRecord had
\* deleteRecord called with its DATA_SOURCE and RECORD_ID and nothing else.
C20_DirectiveStrippedBeforeDispatch ==
    operation.method # "none"
        => /\ stream_loader_directive_name \notin DOMAIN operation.jsonline
           /\ operation.with_jsonline
                 => /\ DOMAIN operation.jsonline
                          = DOMAIN jsonline \ {stream_loader_directive_name}
                    /\ \A k \in DOMAIN operation.jsonline :
                          operation.jsonline[k] = jsonline[k]
           /\ DirectiveOf(jsonline) = "deleteRecord"
                 => /\ operation.method = "deleteRecord"
                    /\ operation.data_source = jsonline["DATA_SOURCE"]
                    /\ operation.record_id = jsonline["RECORD_ID"]
                    /\ ~operation.with_jsonline

\* C20 witness: a record with the directive {action: deleteRecord} was
\* dispatched, and deleteRecord("A", "1") was called and returned.
C20_Witness ==
    /\ DirectiveOf(jsonline) = "deleteRecord"
    /\ operation.method = "deleteRecord"
    /\ operation.data_source = "A"
    /\ operation.record_id = "1"
    /\ cur.accepted
    /\ pc = "returned"

\* ---------------------------------------------------------------------------
\* Normalization.
\* ---------------------------------------------------------------------------

NormalizedPcs == {"normalized", "normalized_twice"}

\* The record with the default of every absent key whose option is set, and
\* nothing else.
WithConfiguredDefaults(dict, ds, et) ==
    LET missing == {k \in {"DATA_SOURCE", "ENTITY_TYPE"} \ DOMAIN dict :
                        (IF k = "DATA_SOURCE" THEN ds ELSE et) # None}
    IN  [k \in DOMAIN dict \cup missing |->
            IF k \in DOMAIN dict THEN dict[k]
            ELSE IF k = "DATA_SOURCE" THEN ds ELSE et]

\* C21: whatever the source and whatever the options data_source and
\* entity_type are set to, the normalized record is the delivered record plus
\* the configured default of DATA_SOURCE where it was absent and the
\* configured default of ENTITY_TYPE where it was absent, and no other field
\* is added or changed.
C21_InsertsConfiguredDefaultsOnly ==
    normalize_pc \in NormalizedPcs
        => normalized = WithConfiguredDefaults(line_dictionary, data_source, entity_type)

\* C22: a value the delivered record holds is never replaced, a record that
\* holds both DATA_SOURCE and ENTITY_TYPE is handed on as it was, and a second
\* normalization changes nothing the first one produced.
C22_PresentValuesKept ==
    /\ normalize_pc \in NormalizedPcs
        => /\ \A k \in DOMAIN line_dictionary :
                    k \in DOMAIN normalized /\ normalized[k] = line_dictionary[k]
           /\ {"DATA_SOURCE", "ENTITY_TYPE"} \subseteq DOMAIN line_dictionary
                    => normalized = line_dictionary
    /\ normalize_pc = "normalized_twice" => normalized_twice = normalized

\* A record with both keys went twice through a consumer whose two options
\* are set to other values.
C22_Witness ==
    /\ normalize_pc = "normalized_twice"
    /\ consumer = "sqs"
    /\ data_source = "D" /\ entity_type = "T"
    /\ {"DATA_SOURCE", "ENTITY_TYPE"} \subseteq DOMAIN line_dictionary
    /\ line_dictionary["DATA_SOURCE"] = "A"
    /\ normalized_twice = line_dictionary

\* ---------------------------------------------------------------------------
\* Fatal errors.
\* ---------------------------------------------------------------------------

\* C23: in the RabbitMQ consumer with info, a line for the failure queue or
\* the info queue that no publish attempt delivered ended the worker in
\* exit_error: running out of the rabbitmq_reconnect_number_of_retries
\* attempts is not survived.
C23_UnpublishedLineExits ==
    consumer = "rabbitmq_withinfo"
        => /\ (cur.sink_attempts > 0 /\ cur.sink = "none") => pc = "exited"
           /\ (info.calls > 0 /\ ~info.published) => pc = "exited"

\* C25: once a resolver operation has raised G2ModuleNotInitialized for a
\* record and the except clause has run, the worker has ended in exit_error:
\* the operation was not called a second time for the record and the line was
\* not given to add_to_failure_queue.
C25_NotInitializedIsFatal ==
    (cur.not_initialized /\ pc # "recheck")
        => /\ pc = "exited"
           /\ cur.calls = 1
           /\ cur.sink_attempts = 0

\* ---------------------------------------------------------------------------
\* The SQS consumers: redrive policy and empty receives.
\* ---------------------------------------------------------------------------

\* C28: with a redrive policy on the source queue and no failure queue URL,
\* a message one of whose records failed, or whose body could not be decoded,
\* has not been deleted by the consumer.
C28_FailedMessageKeptForRedrive ==
    (/\ consumer \in {"sqs", "sqs_withinfo"}
     /\ sqs_dead_letter_queue_enabled
     /\ ~failure_queue_configured
     /\ (sink_write_failed \/ raw.sink_attempts > 0))
        => acks = 0

\* C29: an SQS worker whose receive brought no message has left its loop if
\* exit_on_empty_queue is set; if it is not set the worker is not ended: it
\* calls delay(), which sleeps delay_in_seconds, or a random part of it (less
\* than the whole) when delay_randomized is set, and then receives again.
C29_EmptyReceiveExitsOrDelays ==
    consumer \in {"sqs", "sqs_withinfo"}
        => /\ (fetch_outcome = "no_messages" /\ exit_on_empty_queue)
                => pc = "stopped"
           /\ (fetch_outcome \in {"no_messages", "no_response"}
                    /\ ~exit_on_empty_queue)
                => pc \in {"delay", "fetch"}
           /\ (fetch_outcome = "no_messages" /\ ~exit_on_empty_queue
                    /\ pc = "fetch")
                => slept.called
           /\ slept.called
                => /\ fetch_outcome = "no_messages" /\ ~exit_on_empty_queue
                   /\ pc = "fetch"
                   /\ ~slept.delay_randomized
                        => slept.seconds = RandomSteps * slept.delay_in_seconds
                   /\ slept.delay_randomized
                        => /\ slept.seconds >= 0
                           /\ slept.seconds <= RandomSteps * slept.delay_in_seconds
                           /\ slept.delay_in_seconds > 0
                                => slept.seconds < RandomSteps * slept.delay_in_seconds

\* C29 witness: after an empty receive an SQS worker slept a random part of
\* its two seconds and is about to receive again.
C29_Witness ==
    /\ consumer = "sqs"
    /\ ~exit_on_empty_queue
    /\ fetch_outcome = "no_messages"
    /\ slept.called
    /\ slept.delay_randomized
    /\ slept.delay_in_seconds = MaxDelay
    /\ slept.seconds > 0
    /\ pc = "fetch"

\* ---------------------------------------------------------------------------
\* The process: fatal errors, signals, the engine's end, the log.
\* ---------------------------------------------------------------------------

\* C24: once a thread has reported a fatal error through exit_error, no
\* worker processes a record any more, and the process, when it has ended,
\* has ended with exit code 1.
C24_ExitErrorEndsTheProcess ==
    fatal_reported
        => /\ ~processed_after_fatal
           /\ main_pc = "terminated" => exit_code = "1"

\* C26: a process that has ended after a terminate or interrupt signal has
\* seen its workers and its monitor exit, has destroyed the engine, and has
\* ended with exit code 0; the main thread does not leave before the threads
\* have exited and the engine is destroyed.
C26_SignalShutsDownInOrder ==
    (signalled /\ main_pc \in {"exit_0", "terminated"})
        => /\ \A w \in Workers : workers[w] # "running"
           /\ monitor_pc \in {"not_started", "finished"}
           /\ g2_engine \in {"none", "destroyed"}
           /\ main_pc = "terminated" => exit_code = "0"

\* C27: whatever the subcommand, no worker uses the engine and the monitor
\* does not call g2_engine.stats after g2_engine.destroy(): the engine is
\* destroyed only when every thread that uses it has finished.
C27_NoUseAfterDestroy ==
    /\ after_destroy = {}
    /\ g2_engine = "destroyed" => ~ThreadsAlive

\* C30: whatever the option debug, no logged message shows the value of a
\* key that is listed for redaction.
C30_NoRedactedKeyInLog ==
    \A m \in log : m.keys \cap keys_to_redact = {}

\* ---------------------------------------------------------------------------
\* The monitor thread.
\* ---------------------------------------------------------------------------

\* C31: whatever the subcommand, a monitor that counts its workers when none
\* of the worker threads is alive any more leaves its loop and ends.
C31_MonitorEndsWithItsWorkers ==
    [][(/\ monitor_pc = "count"
        /\ monitor_pc' # "count"
        /\ \A w \in Workers : workers[w] # "running")
            => monitor_pc' = "finished"]_vars

\* ---------------------------------------------------------------------------
\* The periodic configuration check and the failure queue's answer.
\* ---------------------------------------------------------------------------

\* C33: the periodic configuration check never ends the worker: whatever the
\* reinitialization does, the dispatch goes on from the check to the record.
C33_PeriodicCheckKeepsWorkerAlive ==
    [][pc = "check_configuration" => pc' \notin {"crashed", "exited"}]_vars

\* The consumer has a failure queue to publish to.
HasFailureQueue ==
    \/ consumer \in {"kafka_withinfo", "rabbitmq_withinfo"}
    \/ failure_queue_configured

\* C39: where the consumer has a failure queue, a call of add_to_failure_queue
\* that returned True, for a record or for an undecodable body, has put the
\* line into that queue.
C39_TrueOnlyIfSent ==
    HasFailureQueue
        => /\ cur.sink_result = "true" => cur.sink = "queue"
           /\ raw.sink_result = "true" => raw.sink = "queue"

\* ---------------------------------------------------------------------------
\* The governor.
\* ---------------------------------------------------------------------------

\* C36: when a worker's loop hands a record to send_jsonline_to_g2_engine,
\* govern() has been called since the previous record was handed over: every
\* dispatch has a govern() call of its own, also the second record of an
\* array message.
C36_GovernBeforeEachDispatch ==
    [][(pc = "loop" /\ pc' = "check_configuration") => governed]_vars

\* ---------------------------------------------------------------------------
\* The warm-up delay.
\* ---------------------------------------------------------------------------

\* C37: while the main thread of a consumer subcommand is in the
\* sleep_time_in_seconds delay, the worker threads have been started and
\* the monitor thread has not.
C37_WorkersRunDuringTheDelay ==
    main_pc = "sleep"
        => /\ \A w \in Workers : workers[w] # "not_started"
           /\ monitor_pc = "not_started"

\* ---------------------------------------------------------------------------
\* The threads of one process: threads_per_process workers and the monitor
\* share one config dictionary and one G2Engine.  No lock is taken anywhere:
\* a thread can be interrupted between any two statements, and between the
\* load and the store of an augmented assignment.
\* ---------------------------------------------------------------------------

\* Records in the topic the workers consume.
MaxThreadRecords == 3

\* The last reading of time.time().
MaxTime == 1

\* Entries of the config dictionary the threads assign to.
CounterKeys == {"counter_processed_records", "counter_queued_records"}

\* self.config[key] = value
SetConfig(cfg, key, value) == [cfg EXCEPT ![key] = value]

\* A write that also resets the frequency of the check.
WithFrequencyReset(cfg, now) ==
    SetConfig(SetConfig(cfg, "last_configuration_check", now),
              "configuration_check_frequency_in_seconds",
              cfg["configuration_check_frequency_in_seconds"] + 1)

\* is_g2_default_configuration_changed's first statement:
\* self.config['last_configuration_check'] = time.time()
WithLastConfigurationCheck(cfg, now) ==
    SetConfig(cfg, "last_configuration_check", now)

\* is_time_to_check_g2_configuration
ThreadIsTimeToCheck(cfg, now) ==
    now > cfg["last_configuration_check"]
              + cfg["configuration_check_frequency_in_seconds"]

\* The workers inside g2_engine.reinit.
InReinit ==
    {w \in Workers : thread_pc[w] \in {"reinit", "reinit_after_exception"}}

InitThreads ==
    /\ InitWorker
    /\ consumer = "kafka"
    /\ ~failure_queue_configured
    /\ ~sqs_dead_letter_queue_enabled
    /\ ~exit_on_empty_queue
    /\ ~reader_parses
    /\ info_filter = "InfoFilter"
    /\ InitNormalizeIdle
    /\ InitProcessIdle
    /\ InitRabbitMQIdle
    /\ thread_config = StartupConfig
    /\ thread_pc = [w \in Workers |-> "govern"]
    /\ thread_register = [w \in Workers |-> 0]
    /\ thread_records = 0
    /\ clock = 0
    /\ engine_config = [active |-> 1, default |-> 1]
    /\ monitor_stats = NoStats

\* The head of a worker's loop with a record received: the load of
\* self.config['counter_queued_records'] += 1.
LoadQueued(w) ==
    /\ thread_pc[w] = "govern"
    /\ thread_records < MaxThreadRecords
    /\ thread_records' = thread_records + 1
    /\ thread_register' =
           [thread_register EXCEPT ![w] = thread_config["counter_queued_records"]]
    /\ thread_pc' = [thread_pc EXCEPT ![w] = "store_queued"]
    /\ UNCHANGED <<worker_vars, normalize_vars, process_vars, rabbitmq_vars, thread_config,
                   clock, engine_config, monitor_stats>>

\* The store of that augmented assignment, and the first statement of
\* send_jsonline_to_g2_engine: if self.is_time_to_check_g2_configuration()
StoreQueued(w) ==
    /\ thread_pc[w] = "store_queued"
    /\ thread_config' =
           SetConfig(thread_config, "counter_queued_records", thread_register[w] + 1)
    /\ thread_register' = [thread_register EXCEPT ![w] = 0]
    /\ thread_pc' =
           [thread_pc EXCEPT ![w] =
               IF ThreadIsTimeToCheck(thread_config, clock)
               THEN "is_changed"
               ELSE "dispatch"]
    /\ UNCHANGED <<worker_vars, normalize_vars, process_vars, rabbitmq_vars, thread_records,
                   clock, engine_config, monitor_stats>>

\* is_g2_default_configuration_changed followed by
\* update_active_g2_configuration, up to the call of g2_engine.reinit: the
\* time of the check is written first, then the two ids are compared; when
\* they differ, g2_engine.reinit is called with the default id.
\* changed_pc and same_pc are the places the thread is at afterwards.
CheckAndUpdate(w, changed_pc, same_pc) ==
    LET changed == engine_config.active # engine_config.default
    IN  /\ thread_config' = WithLastConfigurationCheck(thread_config, clock)
        /\ thread_pc' =
               [thread_pc EXCEPT ![w] = IF changed THEN changed_pc ELSE same_pc]
        /\ thread_register' =
               [thread_register EXCEPT ![w] =
                   IF changed THEN engine_config.default ELSE 0]

\* The periodic check at the head of send_jsonline_to_g2_engine.
IsChanged(w) ==
    /\ thread_pc[w] = "is_changed"
    /\ CheckAndUpdate(w, "reinit", "dispatch")
    /\ UNCHANGED <<worker_vars, normalize_vars, process_vars, rabbitmq_vars, thread_records,
                   clock, engine_config, monitor_stats>>

\* g2_engine.reinit returns.
ReinitReturns(w) ==
    /\ thread_pc[w] \in {"reinit", "reinit_after_exception"}
    /\ engine_config' = [engine_config EXCEPT !.active = thread_register[w]]
    /\ thread_register' = [thread_register EXCEPT ![w] = 0]
    /\ thread_pc' =
           [thread_pc EXCEPT ![w] =
               IF thread_pc[w] = "reinit" THEN "dispatch" ELSE "retry"]
    /\ UNCHANGED <<worker_vars, normalize_vars, process_vars, rabbitmq_vars, thread_config,
                   thread_records, clock, monitor_stats>>

\* method_to_call(...) took the record: the loop goes on to the load of
\* self.config['counter_processed_records'] += 1.
DispatchReturns(w) ==
    /\ thread_pc[w] \in {"dispatch", "retry"}
    /\ thread_pc' = [thread_pc EXCEPT ![w] = "store_processed"]
    /\ thread_register' =
           [thread_register EXCEPT ![w] = thread_config["counter_processed_records"]]
    /\ UNCHANGED <<worker_vars, normalize_vars, process_vars, rabbitmq_vars, thread_config,
                   thread_records, clock, engine_config, monitor_stats>>

\* method_to_call(...) raised: the handler compares the configuration ids,
\* and the record goes to add_to_failure_queue, uncounted, when they are
\* the same.
DispatchRaises(w) ==
    /\ thread_pc[w] = "dispatch"
    /\ CheckAndUpdate(w, "reinit_after_exception", "govern")
    /\ UNCHANGED <<worker_vars, normalize_vars, process_vars, rabbitmq_vars, thread_records,
                   clock, engine_config, monitor_stats>>

\* The second call of method_to_call(...) raised: the record goes to
\* add_to_failure_queue and is not counted as processed.
RetryRaises(w) ==
    /\ thread_pc[w] = "retry"
    /\ thread_pc' = [thread_pc EXCEPT ![w] = "govern"]
    /\ UNCHANGED <<worker_vars, normalize_vars, process_vars, rabbitmq_vars, thread_config,
                   thread_register, thread_records, clock, engine_config,
                   monitor_stats>>

\* The store of that augmented assignment; the loop goes back to its head.
StoreProcessed(w) ==
    /\ thread_pc[w] = "store_processed"
    /\ thread_config' =
           SetConfig(thread_config, "counter_processed_records", thread_register[w] + 1)
    /\ thread_register' = [thread_register EXCEPT ![w] = 0]
    /\ thread_pc' = [thread_pc EXCEPT ![w] = "govern"]
    /\ UNCHANGED <<worker_vars, normalize_vars, process_vars, rabbitmq_vars, thread_records,
                   clock, engine_config, monitor_stats>>

\* The topic is at its end: the worker's run method returns.
ThreadFinish(w) ==
    /\ thread_pc[w] = "govern"
    /\ thread_records = MaxThreadRecords
    /\ thread_pc' = [thread_pc EXCEPT ![w] = "finished"]
    /\ UNCHANGED <<worker_vars, normalize_vars, process_vars, rabbitmq_vars, thread_config,
                   thread_register, thread_records, clock, engine_config,
                   monitor_stats>>

\* One pass of MonitorThread.run: the totals are read from the config, the
\* intervals logged are their differences to the totals of the pass before,
\* and the totals are kept for the next pass.
MonitorStatistics ==
    /\ \E w \in Workers : thread_pc[w] # "finished"
    /\ monitor_stats' =
           [last_processed_records |-> thread_config["counter_processed_records"],
            last_queued_records |-> thread_config["counter_queued_records"]]
    /\ UNCHANGED <<worker_vars, normalize_vars, process_vars, rabbitmq_vars, thread_config,
                   thread_pc, thread_register, thread_records, clock,
                   engine_config>>

\* Time passes.
ClockTick ==
    /\ clock < MaxTime
    /\ clock' = clock + 1
    /\ UNCHANGED <<worker_vars, normalize_vars, process_vars, rabbitmq_vars, thread_config,
                   thread_pc, thread_register, thread_records, engine_config,
                   monitor_stats>>

\* Somebody registers a new default configuration in the database.
DefaultConfigurationChanges ==
    /\ \E id \in ConfigIds :
          /\ id > engine_config.default
          /\ engine_config' = [engine_config EXCEPT !.default = id]
    /\ UNCHANGED <<worker_vars, normalize_vars, process_vars, rabbitmq_vars, thread_config,
                   thread_pc, thread_register, thread_records, clock,
                   monitor_stats>>

NextThreads ==
    \/ \E w \in Workers : LoadQueued(w)
    \/ \E w \in Workers : StoreQueued(w)
    \/ \E w \in Workers : IsChanged(w)
    \/ \E w \in Workers : ReinitReturns(w)
    \/ \E w \in Workers : DispatchReturns(w)
    \/ \E w \in Workers : DispatchRaises(w)
    \/ \E w \in Workers : RetryRaises(w)
    \/ \E w \in Workers : StoreProcessed(w)
    \/ \E w \in Workers : ThreadFinish(w)
    \/ MonitorStatistics
    \/ ClockTick
    \/ DefaultConfigurationChanges

SpecThreads == InitThreads /\ [][NextThreads]_vars

\* C34: at no time are two worker threads inside g2_engine.reinit.
C34_ReinitIsSerialized ==
    Cardinality(InReinit) <= 1

\* C35: the totals the monitor reads never go down from one pass to the
\* next, whatever the workers' increments do to each other.
C35_MonitorNeverSeesADecrease ==
    [][/\ monitor_stats'.last_processed_records
              >= monitor_stats.last_processed_records
       /\ monitor_stats'.last_queued_records
              >= monitor_stats.last_queued_records]_vars

\* C38: every entry of the shared config other than the two counters and
\* last_configuration_check has the value it had when the threads were
\* started, and no entry was added or removed.
C38_ThreadsLeaveTheOptionsAlone ==
    /\ DOMAIN thread_config = DOMAIN StartupConfig
    /\ \A key \in DOMAIN StartupConfig
                      \ (CounterKeys \cup {"last_configuration_check"}) :
          thread_config[key] = StartupConfig[key]

\* Both counters and the time of the last check have been written, the
\* monitor has made a pass that read them, and a worker has been through
\* g2_engine.reinit.
C38_Witness ==
    /\ thread_config["counter_processed_records"] > 0
    /\ thread_config["counter_queued_records"] > 0
    /\ thread_config["last_configuration_check"] > 0
    /\ monitor_stats.last_processed_records > 0
    /\ engine_config.active = 2

\* ---------------------------------------------------------------------------
\* The RabbitMQ consumer: the thread that runs the connection's I/O loop, the
\* worker() thread it starts, and a broker whose connection can drop.
\* ---------------------------------------------------------------------------

\* Connections the consumer opens.
MaxConnections == 2

\* Deliveries the broker makes.
MaxDeliveries == 2

\* Delivery tags count the deliveries of one channel.
NextDeliveryTag ==
    1 + Cardinality({d \in delivered : d.channel = channel.id})

InitRabbitMQ ==
    /\ InitWorker
    /\ consumer \in {"rabbitmq", "rabbitmq_withinfo"}
    /\ ~failure_queue_configured
    /\ ~sqs_dead_letter_queue_enabled
    /\ ~exit_on_empty_queue
    /\ ~reader_parses
    /\ info_filter = "InfoFilter"
    /\ InitNormalizeIdle
    /\ InitProcessIdle
    /\ InitThreadsIdle
    /\ InitRabbitMQIdle

\* callback(): the I/O loop hands a delivery to the callback, which puts it
\* on the record_queue.
Callback ==
    /\ consume_pc = "start_consuming"
    /\ channel.is_open
    /\ Cardinality(delivered) < MaxDeliveries
    /\ LET delivery == [delivery_tag |-> NextDeliveryTag, channel |-> channel.id]
       IN  /\ delivered' = delivered \cup {delivery}
           /\ record_queue' = Append(record_queue, delivery)
    /\ UNCHANGED <<worker_vars, normalize_vars, process_vars, thread_vars,
                   consume_pc, channel, worker_holds, ack_callbacks, basic_acks>>

\* The broker or the network closes the connection.
ConnectionLost ==
    /\ channel.is_open
    /\ channel' = [channel EXCEPT !.is_open = FALSE]
    /\ UNCHANGED <<worker_vars, normalize_vars, process_vars, thread_vars,
                   consume_pc, delivered, record_queue, worker_holds,
                   ack_callbacks, basic_acks>>

\* The body of the try in run()'s loop ends: start_consuming raises because
\* the connection is gone, or the channel is None or closed at the test.
\* Every exception is caught and logged.
StartConsumingEnds ==
    /\ consume_pc = "start_consuming"
    /\ ~channel.is_open
    /\ consume_pc' = "sleep"
    /\ UNCHANGED <<worker_vars, normalize_vars, process_vars, thread_vars,
                   channel, delivered, record_queue, worker_holds,
                   ack_callbacks, basic_acks>>

\* time.sleep(reconnect_delay)
ReconnectDelay ==
    /\ consume_pc = "sleep"
    /\ consume_pc' = "connect"
    /\ UNCHANGED <<worker_vars, normalize_vars, process_vars, thread_vars,
                   channel, delivered, record_queue, worker_holds,
                   ack_callbacks, basic_acks>>

\* self.connection, self.channel = self.connect(..., exit_on_exception=False):
\* a new connection and channel, or None when an exception was caught.
\* ReadRabbitMQWriteG2Thread.connect registers the callback itself;
\* ReadRabbitMQWriteG2WithInfoThread.run does that after connect returned.
Connect ==
    /\ consume_pc = "connect"
    /\ \E connected \in BOOLEAN :
          channel' = IF connected /\ channel.id < MaxConnections
                     THEN [id |-> channel.id + 1, is_open |-> TRUE]
                     ELSE [id |-> channel.id, is_open |-> FALSE]
    /\ consume_pc' = IF consumer = "rabbitmq_withinfo"
                     THEN "basic_consume"
                     ELSE "start_consuming"
    /\ UNCHANGED <<worker_vars, normalize_vars, process_vars, thread_vars,
                   delivered, record_queue, worker_holds, ack_callbacks,
                   basic_acks>>

\* ReadRabbitMQWriteG2WithInfoThread.run after connect: when the channel is
\* open, basic_qos and basic_consume are called, outside any try; they raise
\* when the connection has dropped again.
BasicConsume ==
    /\ consume_pc = "basic_consume"
    /\ IF channel.is_open
       THEN \E raises \in BOOLEAN :
               /\ consume_pc' = IF raises THEN "terminated" ELSE "start_consuming"
               /\ channel' = IF raises
                             THEN [channel EXCEPT !.is_open = FALSE]
                             ELSE channel
       ELSE /\ consume_pc' = "start_consuming"
            /\ channel' = channel
    /\ UNCHANGED <<worker_vars, normalize_vars, process_vars, thread_vars,
                   delivered, record_queue, worker_holds, ack_callbacks,
                   basic_acks>>

\* worker(): delivery_tag, body = self.record_queue.get()
WorkerGet ==
    /\ worker_holds = NoDelivery
    /\ record_queue # <<>>
    /\ worker_holds' = Head(record_queue)
    /\ record_queue' = Tail(record_queue)
    /\ UNCHANGED <<worker_vars, normalize_vars, process_vars, thread_vars,
                   consume_pc, channel, delivered, ack_callbacks, basic_acks>>

\* worker() is through with the message.  setup_ack hands ack_message to
\* self.connection, the connection of this moment; a closed connection
\* refuses it and the exception is logged.  An undecodable message that the
\* failure queue did not take is not acknowledged at all.
SetupAck ==
    /\ worker_holds # NoDelivery
    /\ worker_holds' = NoDelivery
    /\ \E acknowledges \in BOOLEAN :
          ack_callbacks' =
              IF acknowledges /\ channel.is_open
              THEN ack_callbacks
                       \cup {[delivery_tag |-> worker_holds.delivery_tag,
                              delivered_on |-> worker_holds.channel,
                              connection |-> channel.id]}
              ELSE ack_callbacks
    /\ UNCHANGED <<worker_vars, normalize_vars, process_vars, thread_vars,
                   consume_pc, channel, delivered, record_queue, basic_acks>>

\* ack_message, run by the I/O loop of the connection it was handed to:
\* self.channel.basic_ack(delivery_tag), on the channel of this moment.
AckMessage ==
    /\ consume_pc = "start_consuming"
    /\ channel.is_open
    /\ \E cb \in ack_callbacks :
          /\ cb.connection = channel.id
          /\ ack_callbacks' = ack_callbacks \ {cb}
          /\ basic_acks' =
                 basic_acks \cup {[delivery_tag |-> cb.delivery_tag,
                                   delivered_on |-> cb.delivered_on,
                                   acked_on |-> channel.id]}
    /\ UNCHANGED <<worker_vars, normalize_vars, process_vars, thread_vars,
                   consume_pc, channel, delivered, record_queue, worker_holds>>

NextRabbitMQ ==
    \/ Callback
    \/ ConnectionLost
    \/ StartConsumingEnds
    \/ ReconnectDelay
    \/ Connect
    \/ BasicConsume
    \/ WorkerGet
    \/ SetupAck
    \/ AckMessage

SpecRabbitMQ == InitRabbitMQ /\ [][NextRabbitMQ]_vars

\* C32: the RabbitMQ consumer thread never terminates, whatever happens to
\* the channel, the connection or a reconnection: it is always in
\* start_consuming, in the reconnect delay or reconnecting.
C32_ConsumerNeverTerminates ==
    consume_pc # "terminated"

\* C40: every basic_ack is issued on the channel that delivered the tag it
\* acknowledges.
C40_AckOnTheDeliveringChannel ==
    \A a \in basic_acks : a.acked_on = a.delivered_on

====
